---------------------------- MODULE Spec2Model ----------------------------
(***************************************************************************)
(* Qmetrics: trading-performance analytics.                                *)
(*                                                                         *)
(* The module models, from the Python sources,                             *)
(*   - the Ledger Normalizer   (data_processing.format_trade_data),        *)
(*   - the Monte Carlo Engine  (monte_carlo.monte_carlo_simulation and     *)
(*                              calculate_max_drawdown),                   *)
(*   - the Metrics Engine      (metrics_calculation.calculate_metrics,     *)
(*                              max_consecutive_losses/wins,               *)
(*                              utils.interpret_sqn),                      *)
(*   - the monthly rollup      (visualize / portfolio_tab                  *)
(*                              monthly_performance_table).                *)
(*                                                                         *)
(* Money amounts are integers.  A pandas DataFrame is a record             *)
(*   [columns |-> sequence of column names, rows |-> sequence of rows]     *)
(* where a row is a function from the column names to the cell values.     *)
(* Each component has its own variables and its own specification; the     *)
(* variables of the other components stay at their idle values.            *)
(***************************************************************************)
EXTENDS Integers, Sequences, FiniteSets, TLC

VARIABLES
    trade_data,     \* normalizer: the DataFrame object the caller passes in
    uploaded_name,  \* normalizer: the name of the file it was read from
    formatted,      \* normalizer: what format_trade_data returned
    st_errors,      \* normalizer: messages reported through st.error
    norm_path       \* normalizer: "idle" | "pass_through" | "pairing" | "failed"

normVars == <<trade_data, uploaded_name, formatted, st_errors, norm_path>>

VARIABLES
    mc_trades,        \* Monte Carlo: the ledger the simulations are run on
    np_random_state,  \* Monte Carlo: state of numpy's process-wide generator
    mc_call,          \* Monte Carlo: arguments of the latest call
    mc_result,        \* Monte Carlo: what the latest call returned or raised
    mc_first          \* Monte Carlo: an earlier seeded call and its result

mcVars == <<mc_trades, np_random_state, mc_call, mc_result, mc_first>>

VARIABLES
    net_profits,        \* streaks: the sequence of net net_profits given to the two functions
    streaks         \* streaks: what max_consecutive_losses / _wins returned

streakVars == <<net_profits, streaks>>

VARIABLES
    sqn,            \* SQN label: the value given to interpret_sqn
    sqn_label       \* SQN label: the label returned

sqnVars == <<sqn, sqn_label>>

VARIABLES
    cumulative_profits,  \* drawdown: the array given to calculate_max_drawdown
    as_percentage,       \* drawdown: the flag of the call
    max_drawdowns        \* drawdown: what the call returned or raised

ddVars == <<cumulative_profits, as_percentage, max_drawdowns>>

VARIABLES
    cm_trades,             \* metrics: the ledger given to calculate_metrics
    include_buy_and_hold,  \* metrics: the flag of the call
    cm_result              \* metrics: what the call returned or raised

cmVars == <<cm_trades, include_buy_and_hold, cm_result>>

VARIABLES
    mp_trades,      \* monthly table: the ledger given to monthly_performance_table
    mp_call,        \* monthly table: which of the two functions, mode and balance
    monthly_pivot   \* monthly table: the table after reset_index

mpVars == <<mp_trades, mp_call, monthly_pivot>>

VARIABLES
    ledger,               \* views: a canonical ledger held by the application
    ledger_at_ingestion,  \* views: the same ledger as the normalizer returned it
    ledger_view           \* views: the last view derived from it

ledgerVars == <<ledger, ledger_at_ingestion, ledger_view>>

VARIABLES
    saved_strategies,  \* upload: the strategies loaded from the save folder
    uploaded_files,    \* upload: the batch the file uploader returned
    strategies,        \* upload: the strategies map being built
    upload_index,      \* upload: 0 before the loop, then the position of the next file
    upload_errors      \* upload: the file names reported through st.error

uploadVars == <<saved_strategies, uploaded_files, strategies, upload_index, upload_errors>>

VARIABLES
    balance_series,   \* drawdown period: the cumulative balances given to max_drawdown_period
    drawdown_period   \* drawdown period: what the call returned

ddpVars == <<balance_series, drawdown_period>>

VARIABLES
    simulated_trades,  \* path statistics: the array given to a derived-statistic function
    path_stats         \* path statistics: which function was called and what it returned or raised

pathVars == <<simulated_trades, path_stats>>

VARIABLES
    display_call,   \* confidence table: the matrix of cumulative profits and the initial balance given to display_monte_carlo_metrics
    metrics_table   \* confidence table: the rows of the table it built, or what it raised

clVars == <<display_call, metrics_table>>

VARIABLES
    entry_sqn,  \* SQN entry: the SQN calculate_metrics computed for the ledger
    sqn_entry   \* SQN entry: the number and the label of the Strategy Quality Number entry

entryVars == <<entry_sqn, sqn_entry>>

VARIABLES
    formatted_again,  \* second normalization: what format_trade_data returned when given its own result
    again_path        \* second normalization: "idle" | "pass_through" | "pairing" | "failed"

againVars == <<formatted_again, again_path>>

VARIABLES
    sidebar_strategies,   \* sidebar: the SQN of every strategy of the map given to render_sidebar
    filter_by_sqn,        \* sidebar: the state of the checkbox "Auto-deselect strategies with SQN < 2"
    session_state,        \* sidebar: st.session_state, the pairs of a key and its value
    portfolio_selection   \* sidebar: what the latest run of render_sidebar returned

sidebarVars == <<sidebar_strategies, filter_by_sqn, session_state, portfolio_selection>>

vars == <<normVars, mcVars, streakVars, sqnVars, ddVars, cmVars, mpVars, ledgerVars,
          uploadVars,
          ddpVars,
          pathVars,
          clVars,
          entryVars,
          againVars,
          sidebarVars>>

-----------------------------------------------------------------------------
(* Bounds of the model *)

MaxRows == 3        \* rows of an uploaded table
MaxPool == 2        \* trades of a ledger given to the Monte Carlo engine
MaxSims == 2        \* num_simulations is 1 or MaxSims
MaxLen == 4         \* length of a sequence of net profits
MaxSqn == 800       \* SQN values are 0.00 .. MaxSqn / 100, and their negatives
MaxCols == 3        \* columns (trades) of a cumulative-profit matrix
MaxTrades == 3      \* trades of a ledger given to calculate_metrics
MaxMonthly == 2     \* trades of a ledger given to monthly_performance_table
MaxFiles == 2       \* files of one uploaded batch
MaxDays == 4        \* days of a series given to max_drawdown_period
MaxStrategies == 2  \* strategies shown in the sidebar
RngModulus == 5     \* number of states of the modelled generator

-----------------------------------------------------------------------------
(* Values of the variables of a component that is not running *)

NoneVal == [kind |-> "None"]

NormIdle ==
    /\ trade_data = NoneVal
    /\ uploaded_name = ""
    /\ formatted = NoneVal
    /\ st_errors = <<>>
    /\ norm_path = "idle"

McIdle ==
    /\ mc_trades = NoneVal
    /\ np_random_state = 0
    /\ mc_call = NoneVal
    /\ mc_result = NoneVal
    /\ mc_first = NoneVal

StreakIdle ==
    /\ net_profits = <<>>
    /\ streaks = NoneVal

SqnIdle ==
    /\ sqn = NoneVal
    /\ sqn_label = ""

DdIdle ==
    /\ cumulative_profits = NoneVal
    /\ as_percentage = FALSE
    /\ max_drawdowns = NoneVal

CmIdle ==
    /\ cm_trades = NoneVal
    /\ include_buy_and_hold = FALSE
    /\ cm_result = NoneVal

MpIdle ==
    /\ mp_trades = NoneVal
    /\ mp_call = NoneVal
    /\ monthly_pivot = NoneVal

LedgerIdle ==
    /\ ledger = NoneVal
    /\ ledger_at_ingestion = NoneVal
    /\ ledger_view = NoneVal

UploadIdle ==
    /\ saved_strategies = NoneVal
    /\ uploaded_files = <<>>
    /\ strategies = NoneVal
    /\ upload_index = 0
    /\ upload_errors = <<>>

DdpIdle ==
    /\ balance_series = <<>>
    /\ drawdown_period = NoneVal

PathsIdle ==
    /\ simulated_trades = NoneVal
    /\ path_stats = NoneVal

ClIdle ==
    /\ display_call = NoneVal
    /\ metrics_table = NoneVal

EntryIdle ==
    /\ entry_sqn = NoneVal
    /\ sqn_entry = NoneVal

AgainIdle ==
    /\ formatted_again = NoneVal
    /\ again_path = "idle"

SidebarIdle ==
    /\ sidebar_strategies = NoneVal
    /\ filter_by_sqn = FALSE
    /\ session_state = {}
    /\ portfolio_selection = {}

\* every component but the named one is idle
OthersIdle(component) ==
    /\ IF component = "norm" THEN TRUE ELSE NormIdle
    /\ IF component = "mc" THEN TRUE ELSE McIdle
    /\ IF component = "streaks" THEN TRUE ELSE StreakIdle
    /\ IF component = "sqn" THEN TRUE ELSE SqnIdle
    /\ IF component = "dd" THEN TRUE ELSE DdIdle
    /\ IF component = "cm" THEN TRUE ELSE CmIdle
    /\ IF component = "mp" THEN TRUE ELSE MpIdle
    /\ IF component = "ledger" THEN TRUE ELSE LedgerIdle
    /\ IF component = "upload" THEN TRUE ELSE UploadIdle
    /\ IF component = "ddp" THEN TRUE ELSE DdpIdle
    /\ IF component = "paths" THEN TRUE ELSE PathsIdle
    /\ IF component = "cl" THEN TRUE ELSE ClIdle
    /\ IF component = "entry" THEN TRUE ELSE EntryIdle
    /\ IF component = "again" THEN TRUE ELSE AgainIdle
    /\ IF component = "sidebar" THEN TRUE ELSE SidebarIdle

\* every component but the named one keeps its state
OthersUnchanged(component) ==
    /\ IF component = "norm" THEN TRUE ELSE UNCHANGED normVars
    /\ IF component = "mc" THEN TRUE ELSE UNCHANGED mcVars
    /\ IF component = "streaks" THEN TRUE ELSE UNCHANGED streakVars
    /\ IF component = "sqn" THEN TRUE ELSE UNCHANGED sqnVars
    /\ IF component = "dd" THEN TRUE ELSE UNCHANGED ddVars
    /\ IF component = "cm" THEN TRUE ELSE UNCHANGED cmVars
    /\ IF component = "mp" THEN TRUE ELSE UNCHANGED mpVars
    /\ IF component = "ledger" THEN TRUE ELSE UNCHANGED ledgerVars
    /\ IF component = "upload" THEN TRUE ELSE UNCHANGED uploadVars
    /\ IF component = "ddp" THEN TRUE ELSE UNCHANGED ddpVars
    /\ IF component = "paths" THEN TRUE ELSE UNCHANGED pathVars
    /\ IF component = "cl" THEN TRUE ELSE UNCHANGED clVars
    /\ IF component = "entry" THEN TRUE ELSE UNCHANGED entryVars
    /\ IF component = "again" THEN TRUE ELSE UNCHANGED againVars
    /\ IF component = "sidebar" THEN TRUE ELSE UNCHANGED sidebarVars

-----------------------------------------------------------------------------
(* Generic helpers on sequences *)

RECURSIVE SeqsUpTo(_, _)
\* all sequences over S of length 0..n
SeqsUpTo(S, n) ==
    IF n = 0 THEN {<<>>}
    ELSE LET shorter == SeqsUpTo(S, n - 1)
         IN  shorter \cup {Append(s, x) : s \in {t \in shorter : Len(t) = n - 1}, x \in S}

SeqToSet(s) == {s[i] : i \in DOMAIN s}

HasColumn(df, col) == col \in SeqToSet(df.columns)

\* next((col for col in columns if Test(col)), None): the first match, or "" for None
FirstColumn(columns, Test(_)) ==
    IF \E i \in DOMAIN columns : Test(columns[i])
    THEN columns[CHOOSE i \in DOMAIN columns :
                    Test(columns[i]) /\ \A j \in 1..(i - 1) : ~Test(columns[j])]
    ELSE ""

-----------------------------------------------------------------------------
(***************************************************************************)
(* DataFrame operations used by format_trade_data                          *)
(***************************************************************************)

Frame(columns, rows) == [kind |-> "DataFrame", columns |-> columns, rows |-> rows]

\* df[col] = F(row): an existing column is overwritten in place, a new one is
\* appended after the last column
AssignColumn(df, col, F(_)) ==
    Frame(IF HasColumn(df, col) THEN df.columns ELSE Append(df.columns, col),
          [i \in DOMAIN df.rows |-> (col :> F(df.rows[i])) @@ df.rows[i]])

\* df[[c1, ..., cn]]: a new frame with exactly these columns, in this order
SelectColumns(df, cols) ==
    Frame(cols, [i \in DOMAIN df.rows |-> [c \in SeqToSet(cols) |-> df.rows[i][c]]])

\* df[mask]: the rows satisfying Test, in order
FilterRows(df, Test(_)) == Frame(df.columns, SelectSeq(df.rows, Test))

\* pd.to_datetime(cell, errors='coerce') on the date texts of the model: a
\* parseable text becomes a timestamp, a timestamp stays, anything else is NaT
ToDatetimeCoerce(cell) ==
    CASE cell = "2024-03-01"    -> "Timestamp(2024-03-01)"
      [] cell = "2024-11-05"    -> "Timestamp(2024-11-05)"
      [] cell = "Timestamp(2024-03-01)" -> cell
      [] cell = "Timestamp(2024-11-05)" -> cell
      [] OTHER                  -> "NaT"

\* Series.str.contains(word, case=False, na=False) on the Type texts of the model
TypeContains(type, word) ==
    CASE type = "Entry Long"  -> word = "Entry"
      [] type = "Entry Short" -> word = "Entry"
      [] type = "Exit Long"   -> word = "Exit"
      [] type = "Exit Short"  -> word = "Exit"
      [] OTHER                -> FALSE

\* col.startswith('Price') on the column names of the model
StartsWithPrice(col) == col \in {"Price USD", "Price"}

\* 'Profit' in col on the column names of the model
ContainsProfit(col) == col \in {"Profit USD", "Profit", "Net Profit", "Cum. Profit USD"}

\* the name pd.merge gives a column that occurs on both sides
WithSuffix(col, suffix) ==
    CASE col = "Date/Time" /\ suffix = "_Entry" -> "Date/Time_Entry"
      [] col = "Date/Time" /\ suffix = "_Exit"  -> "Date/Time_Exit"
      [] col = "Price USD" /\ suffix = "_Entry" -> "Price USD_Entry"
      [] col = "Price USD" /\ suffix = "_Exit"  -> "Price USD_Exit"
      [] col = "Contracts" /\ suffix = "_Entry" -> "Contracts_Entry"
      [] col = "Contracts" /\ suffix = "_Exit"  -> "Contracts_Exit"
      [] OTHER                                  -> "?"

MapSeq(s, F(_)) == [i \in DOMAIN s |-> F(s[i])]

RECURSIVE Concat(_)
\* the concatenation of a sequence of sequences
Concat(ss) == IF ss = <<>> THEN <<>> ELSE Head(ss) \o Concat(Tail(ss))

\* pd.merge(left, right, on=key, suffixes=(sl, sr)), how='inner': one row for every
\* pair (left row, right row) with equal key, in left order then right order
MergeInner(left, right, key, sl, sr) ==
    LET overlap == (SeqToSet(left.columns) \cap SeqToSet(right.columns)) \ {key}
        NameL(c) == IF c \in overlap THEN WithSuffix(c, sl) ELSE c
        NameR(c) == IF c \in overlap THEN WithSuffix(c, sr) ELSE c
        rightCols == SelectSeq(right.columns, LAMBDA c : c # key)
        Joined(l, r) ==
            [c \in {NameL(d) : d \in SeqToSet(left.columns)}
                    \cup {NameR(d) : d \in SeqToSet(rightCols)} |->
                IF \E d \in SeqToSet(left.columns) : NameL(d) = c
                THEN l[CHOOSE d \in SeqToSet(left.columns) : NameL(d) = c]
                ELSE r[CHOOSE d \in SeqToSet(rightCols) : NameR(d) = c]]
        Matches(l) == SelectSeq(right.rows, LAMBDA r : r[key] = l[key])
    IN  Frame(MapSeq(left.columns, NameL) \o MapSeq(rightCols, NameR),
              Concat([i \in DOMAIN left.rows |->
                        MapSeq(Matches(left.rows[i]),
                               LAMBDA r : Joined(left.rows[i], r))]))

\* df.rename(columns=map): New(c) is the new name of column c (c itself when
\* the mapping does not mention it)
RenameColumns(df, New(_)) ==
    Frame(MapSeq(df.columns, New),
          [i \in DOMAIN df.rows |->
              [c \in {New(d) : d \in SeqToSet(df.columns)} |->
                  df.rows[i][CHOOSE d \in SeqToSet(df.columns) : New(d) = c]]])

-----------------------------------------------------------------------------
(***************************************************************************)
(* Ledger Normalizer: data_processing.format_trade_data                    *)
(***************************************************************************)

final_format_cols ==
    <<"Trade #", "Type", "lots", "Entry Date", "Exit Date",
      "Entry Price", "Exit Price", "Profit", "Total Commission", "Net Profit">>

required_columns == <<"Type", "Trade #", "Date/Time", "Contracts">>

\* the columns the pairing path returns
paired_format_cols ==
    <<"Trade #", "Type", "Contracts", "Entry Date", "Exit Date",
      "Entry Price", "Exit Price", "Profit", "Total Commission", "Net Profit">>

LotDivisor == 100000
CommissionPerLot == 4

\* formatted_trades['Net Profit'] = formatted_trades['Profit'] - formatted_trades['Total Commission']
NetProfitOf(row) == row["Profit"] - row["Total Commission"]

\* the pass-through branch: both date columns are coerced in the caller's frame
PassThroughData(df) ==
    AssignColumn(
        AssignColumn(df, "Entry Date", LAMBDA r : ToDatetimeCoerce(r["Entry Date"])),
        "Exit Date", LAMBDA r : ToDatetimeCoerce(r["Exit Date"]))

\* the caller's frame after the two column assignments of the pairing branch
WithLotsAndCommission(df) ==
    AssignColumn(
        AssignColumn(df, "Lots", LAMBDA r : r["Contracts"] \div LotDivisor),
        "Commission", LAMBDA r : r["Lots"] * CommissionPerLot)

EntriesOf(df) == FilterRows(df, LAMBDA r : TypeContains(r["Type"], "Entry"))
ExitsOf(df) == FilterRows(df, LAMBDA r : TypeContains(r["Type"], "Exit"))

\* the merge, the Type column, the rename, the two computed columns and the
\* final column selection
PairTrades(entries, exits, price_column, profit_column) ==
    LET paired_trades ==
            MergeInner(
                SelectColumns(entries,
                    <<"Trade #", "Date/Time", price_column, "Contracts", "Commission">>),
                SelectColumns(exits,
                    <<"Trade #", "Date/Time", price_column, profit_column, "Contracts">>),
                "Trade #", "_Entry", "_Exit")
        typed == AssignColumn(paired_trades, "Type", LAMBDA r : entries.rows[1]["Type"])
        NewName(c) ==
            CASE c = "Date/Time_Entry"                  -> "Entry Date"
              [] c = "Date/Time_Exit"                   -> "Exit Date"
              [] c = WithSuffix(price_column, "_Entry") -> "Entry Price"
              [] c = WithSuffix(price_column, "_Exit")  -> "Exit Price"
              [] c = "Contracts_Entry"                  -> "Contracts"
              [] c = profit_column                      -> "Profit"
              [] c = "Commission_Entry"                 -> "Commission"
              [] OTHER                                  -> c
        renamed == RenameColumns(typed, NewName)
        withTotal == AssignColumn(renamed, "Total Commission", LAMBDA r : r["Commission"])
        withNet == AssignColumn(withTotal, "Net Profit", NetProfitOf)
    IN  SelectColumns(withNet, paired_format_cols)

\* (mutant: the ValueError leaves the function)
FailureRaised(df, input_filename, what, column) ==
    [ret   |-> [kind |-> "ValueError"],
     data  |-> df,
     path  |-> "failed",
     error |-> <<>>]

\* raise ValueError(...) inside the try: the except clause reports the message,
\* which names the file, through st.error and returns None
Failure(df, input_filename, what, column) ==
    [ret   |-> NoneVal,
     data  |-> df,
     path  |-> "failed",
     error |-> <<[file |-> input_filename, what |-> what, column |-> column]>>]

\* format_trade_data(trade_data, input_filename): the value returned, the
\* caller's frame afterwards, the branch taken and what st.error was given
format_trade_data(df, input_filename) ==
    IF \A i \in DOMAIN final_format_cols : HasColumn(df, final_format_cols[i])
    THEN [ret   |-> SelectColumns(PassThroughData(df), final_format_cols),
          data  |-> PassThroughData(df),
          path  |-> "pass_through",
          error |-> <<>>]
    ELSE IF \E i \in DOMAIN required_columns : ~HasColumn(df, required_columns[i])
    THEN Failure(df, input_filename, "column not found",
                 FirstColumn(required_columns, LAMBDA c : ~HasColumn(df, c)))
    ELSE LET price_column == FirstColumn(df.columns, StartsWithPrice)
             profit_column == FirstColumn(df.columns, ContainsProfit)
             data == WithLotsAndCommission(df)
             entries == EntriesOf(data)
             exits == ExitsOf(data)
         IN  IF price_column = ""
             THEN Failure(df, input_filename, "no price column", "Price")
             ELSE IF profit_column = ""
             THEN Failure(df, input_filename, "no profit column", "Profit")
             ELSE IF entries.rows = <<>> \/ exits.rows = <<>>
             THEN Failure(data, input_filename, "entry and exit trades needed", "Type")
             ELSE [ret   |-> PairTrades(entries, exits, price_column, profit_column),
                   data  |-> data,
                   path  |-> "pairing",
                   error |-> <<>>]

-----------------------------------------------------------------------------
(* The uploads the normalizer is run on *)

TradeIds == {1, 2}
FileNames == {"a.csv", "b.xlsx"}
RawColumns == <<"Trade #", "Type", "Date/Time", "Price USD", "Contracts", "Profit USD">>

\* (Contracts, Profit) of a raw row
RawAmounts == {<<100000, 10>>, <<200000, -5>>}

RawRow(type, id, amounts) ==
    [c \in SeqToSet(RawColumns) |->
        CASE c = "Trade #"    -> id
          [] c = "Type"       -> type
          [] c = "Date/Time"  -> "2024-03-01"
          [] c = "Price USD"  -> 100
          [] c = "Contracts"  -> amounts[1]
          [] c = "Profit USD" -> amounts[2]]

RawRows == {RawRow(t, id, a) : t \in {"Entry Long", "Exit Long"}, id \in TradeIds, a \in RawAmounts}

RawTables == {Frame(RawColumns, rows) : rows \in SeqsUpTo(RawRows, MaxRows)}

\* raw exports that lack one column
IncompleteTables ==
    {SelectColumns(Frame(RawColumns, rows), SelectSeq(RawColumns, LAMBDA c : c # gone)) :
        rows \in SeqsUpTo(RawRows, 1), gone \in SeqToSet(RawColumns)}

CanonicalRow(amounts, date) ==
    [c \in SeqToSet(final_format_cols) |->
        CASE c = "Trade #"          -> 1
          [] c = "Type"             -> "Entry Long"
          [] c = "lots"             -> 1
          [] c = "Entry Date"       -> date
          [] c = "Exit Date"        -> "2024-11-05"
          [] c = "Entry Price"      -> 100
          [] c = "Exit Price"       -> 101
          [] c = "Profit"           -> amounts[1]
          [] c = "Total Commission" -> CommissionPerLot
          [] c = "Net Profit"       -> amounts[2]]

\* rows of a file already in final format, (Profit, Net Profit) being the
\* amounts; nothing ties the 'Net Profit' cell of a file to the other two
CanonicalRows ==
    {CanonicalRow(a, d) :
        a \in {<<10, 6>>, <<-5, -9>>, <<-5, 6>>}, d \in {"2024-03-01", "n/a"}}

CanonicalTables == {Frame(final_format_cols, rows) : rows \in SeqsUpTo(CanonicalRows, MaxRows)}

Uploads == RawTables \cup IncompleteTables \cup CanonicalTables

InitNorm ==
    /\ trade_data \in Uploads
    /\ uploaded_name \in FileNames
    /\ formatted = NoneVal
    /\ st_errors = <<>>
    /\ norm_path = "idle"
    /\ OthersIdle("norm")

\* app.py: formatted_trades = format_trade_data(raw_trades, uploaded_file.name)
FormatTradeData ==
    /\ norm_path = "idle"
    /\ LET call == format_trade_data(trade_data, uploaded_name)
       IN  /\ formatted' = call.ret
           /\ trade_data' = call.data
           /\ st_errors' = st_errors \o call.error
           /\ norm_path' = call.path
    /\ UNCHANGED uploaded_name
    /\ OthersUnchanged("norm")

NextNorm == FormatTradeData

SpecNorm == InitNorm /\ [][NextNorm]_vars

-----------------------------------------------------------------------------
(* Claims about the normalizer *)

Returned == formatted.kind = "DataFrame"

\* C1: every row of a ledger returned by format_trade_data, by the pass-through
\* path or by the pairing path, has Net Profit = Profit - Total Commission.
C1_NetProfitIsProfitMinusCommission ==
    Returned =>
        \A i \in DOMAIN formatted.rows :
            formatted.rows[i]["Net Profit"] =
                formatted.rows[i]["Profit"] - formatted.rows[i]["Total Commission"]

EntryIds == {r["Trade #"] : r \in SeqToSet(EntriesOf(trade_data).rows)}
ExitIds == {r["Trade #"] : r \in SeqToSet(ExitsOf(trade_data).rows)}

\* C2: on the pairing path the returned ledger has exactly as many rows as there
\* are trade ids that occur both among the Entry rows and among the Exit rows.
C2_RowCountIsMatchingIdCount ==
    norm_path = "pairing" =>
        Len(formatted.rows) = Cardinality(EntryIds \cap ExitIds)

-----------------------------------------------------------------------------
(***************************************************************************)
(* Monte Carlo Engine: monte_carlo.monte_carlo_simulation                  *)
(*                                                                         *)
(* numpy's legacy global generator is modelled as a deterministic          *)
(* generator with RngModulus states: np.random.seed(s) puts it in a state  *)
(* that depends on s alone, and every draw reads the state and advances    *)
(* it by one.  A call that raises is a result of kind KeyError or ValueError.     *)
(***************************************************************************)

RngStates == 0..(RngModulus - 1)

\* np.random.seed(seed)
SeedState(seed) == (seed * 3 + 1) % RngModulus

\* (mutant: a draw leaves the generator where it was)
RngStuck(state) == state

\* the state after one draw
RngNext(state) == (state + 1) % RngModulus

\* the value of a draw below n, 0 <= value < n: the output the generator
\* gives in this state, reduced to the range
RandBelow(state, n) == ((state * (state + 3)) \div 2) % n

Raised(kind) == [kind |-> kind, rows |-> <<>>]
Matrix(rows) == [kind |-> "ndarray", rows |-> rows]

RECURSIVE RngAfter(_, _)
\* the state after k draws
RngAfter(state, k) == IF k = 0 THEN state ELSE RngAfter(RngNext(state), k - 1)

\* (mutant: the drawn index itself is stored, not the pool's value there)
ChoiceDrawsIndex(pool, count, state) ==
    [values |-> [k \in 1..count |-> RandBelow(RngAfter(state, k - 1), Len(pool))],
     state  |-> RngAfter(state, count)]

\* count draws of an index into the pool, each mapped to the pool's value
ChoiceDraws(pool, count, state) ==
    [values |-> [k \in 1..count |-> pool[RandBelow(RngAfter(state, k - 1), Len(pool)) + 1]],
     state  |-> RngAfter(state, count)]

\* (mutant: the two sizes are taken the other way round)
ReshapeBySecond(values, rows, cols) ==
    [i \in 1..cols |-> [j \in 1..rows |-> values[(i - 1) * rows + j]]]

\* values laid out row by row as a (rows x cols) array
Reshape(values, rows, cols) ==
    [i \in 1..rows |-> [j \in 1..cols |-> values[(i - 1) * cols + j]]]

\* np.random.choice(profits, size=(num_simulations, num_trades), replace=True)
RandomChoice(profits, num_simulations, num_trades, state) ==
    IF Len(profits) = 0 /\ num_simulations * num_trades > 0
    THEN [ret |-> Raised("ValueError"), state |-> state]
    ELSE LET drawn == ChoiceDraws(profits, num_simulations * num_trades, state)
         IN  [ret   |-> Matrix(Reshape(drawn.values, num_simulations, num_trades)),
              state |-> drawn.state]

\* (mutant: position i receives the drawn element, which is not moved away)
RECURSIVE ShuffleNoSwap(_, _, _)
ShuffleNoSwap(arr, i, state) ==
    IF i < 2 THEN [values |-> arr, state |-> state]
    ELSE LET j == RandBelow(state, i) + 1
         IN  ShuffleNoSwap([arr EXCEPT ![i] = arr[j]], i - 1, RngNext(state))

\* the shuffle inside np.random.permutation: for i = n down to 2, swap
\* position i with a drawn position j <= i
RECURSIVE Shuffle(_, _, _)
Shuffle(arr, i, state) ==
    IF i < 2 THEN [values |-> arr, state |-> state]
    ELSE LET j == RandBelow(state, i) + 1
         IN  Shuffle([arr EXCEPT ![i] = arr[j], ![j] = arr[i]], i - 1, RngNext(state))

\* np.random.permutation(profits): a shuffled copy
Permutation(profits, state) == Shuffle(profits, Len(profits), state)

RECURSIVE ShuffledRowsFrom(_, _, _, _, _)
\* the remaining iterations of the loop, `rows` being the paths filled so far
ShuffledRowsFrom(profits, remaining, num_trades, state, rows) ==
    IF remaining = 0 THEN [rows |-> rows, state |-> state]
    ELSE LET shuffled_profits == Permutation(profits, state)
         IN  ShuffledRowsFrom(profits, remaining - 1, num_trades, shuffled_profits.state,
                              Append(rows, SubSeq(shuffled_profits.values, 1, num_trades)))

\* the loop of the randomized_shuffling branch: one permutation per
\* simulation, truncated to num_trades
ShuffledRows(profits, num_simulations, num_trades, state) ==
    ShuffledRowsFrom(profits, num_simulations, num_trades, state, <<>>)

\* the generator state the draws start from
\* (mutant: the seed argument is ignored)
SeedIgnored(seed, state) == state

SeedApplied(seed, state) == IF seed.given THEN SeedState(seed.value) ELSE state

\* (mutant: the bound on num_trades is applied whatever the method)
ExceedsPoolAnyMethod(method, num_trades, total_trades_available) ==
    num_trades > total_trades_available

\* if method == "randomized_shuffling" and num_trades > total_trades_available
ExceedsPool(method, num_trades, total_trades_available) ==
    method = "randomized_shuffling" /\ num_trades > total_trades_available

\* (mutant: the seed is applied before the arguments are validated)
RefusedAfterSeed(kind, seed, state) ==
    [ret |-> Raised(kind), state |-> SeedApplied(seed, state)]

\* a raise of the validation, which comes before np.random.seed(seed)
Refused(kind, seed, state) == [ret |-> Raised(kind), state |-> state]

\* monte_carlo_simulation(trades, num_simulations, num_trades, method, seed)
\* called when the generator is in `state`: what it returns or raises, and the
\* generator state it leaves
monte_carlo_simulation(trades, num_simulations, num_trades, method, seed, state) ==
    IF ~HasColumn(trades, "Profit")
    THEN Refused("KeyError", seed, state)
    ELSE LET profits == MapSeq(trades.rows, LAMBDA r : r["Profit"])
             total_trades_available == Len(profits)
             n == IF num_trades.given THEN num_trades.value ELSE total_trades_available
         IN  IF method \notin {"random_choice", "randomized_shuffling"}
             THEN Refused("ValueError", seed, state)
             ELSE IF ExceedsPool(method, n, total_trades_available)
             THEN Refused("ValueError", seed, state)
             ELSE IF method = "random_choice"
             THEN RandomChoice(profits, num_simulations, n, SeedApplied(seed, state))
             ELSE LET sim == ShuffledRows(profits, num_simulations, n,
                                          SeedApplied(seed, state))
                  IN  [ret |-> Matrix(sim.rows), state |-> sim.state]

-----------------------------------------------------------------------------
(* The ledgers and the arguments the engine is called with *)

McProfits == {-5, 10, 20}

ProfitRow(p) == [c \in {"Profit"} |-> p]
NetOnlyRow(p) == [c \in {"Net Profit"} |-> p]

McLedgers ==
    {Frame(<<"Profit">>, MapSeq(ps, ProfitRow)) : ps \in SeqsUpTo(McProfits, MaxPool)}
        \cup {Frame(<<"Net Profit">>, MapSeq(<<10>>, NetOnlyRow))}

Given(v) == [given |-> TRUE, value |-> v]
NotGiven == [given |-> FALSE, value |-> 0]

Seeds == {0, 1}

SeedArgs == {NotGiven} \cup {Given(s) : s \in Seeds}

\* every combination of arguments with a known method, and one call per seed
\* with a method the engine does not know
McCalls ==
    [kind            : {"call"},
     num_simulations : {1, MaxSims},
     num_trades      : {NotGiven} \cup {Given(n) : n \in {0, 1, MaxPool, MaxPool + 1}},
     method          : {"random_choice", "randomized_shuffling"},
     seed            : SeedArgs]
    \cup
    [kind            : {"call"},
     num_simulations : {1},
     num_trades      : {NotGiven},
     method          : {"bootstrap"},
     seed            : SeedArgs]

\* numpy seeds the global generator from the operating system when it is
\* imported: the state before the first call is arbitrary
InitMC ==
    /\ mc_trades \in McLedgers
    /\ np_random_state \in RngStates
    /\ mc_call = NoneVal
    /\ mc_result = NoneVal
    /\ mc_first = NoneVal
    /\ OthersIdle("mc")

\* one call of monte_carlo_simulation on the ledger
MonteCarloCall(call) ==
    LET done == monte_carlo_simulation(mc_trades, call.num_simulations, call.num_trades,
                                       call.method, call.seed, np_random_state)
    IN  /\ mc_call' = call
        /\ mc_result' = done.ret
        /\ np_random_state' = done.state
        /\ UNCHANGED mc_trades
        /\ OthersUnchanged("mc")

MonteCarloSimulation ==
    \E call \in McCalls : MonteCarloCall(call) /\ UNCHANGED mc_first

NextMC == MonteCarloSimulation

SpecMC == InitMC /\ [][NextMC]_vars

\* The calls whose results are compared with one another: MaxSims paths of
\* the full ledger length or of one trade, by either method, seeded or not
McCallsKept ==
    [kind            : {"call"},
     num_simulations : {MaxSims},
     num_trades      : {NotGiven, Given(1)},
     method          : {"random_choice", "randomized_shuffling"},
     seed            : SeedArgs]

\* mc_first after the call: a seeded call may be kept with its result; once one
\* is kept, `between` records that a later unseeded call has drawn from the
\* generator
KeepFirst(call, result) ==
    IF mc_first.kind = "kept"
    THEN {[mc_first EXCEPT !.between = @ \/ (~call.seed.given /\ result.kind = "ndarray")]}
    ELSE IF call.seed.given
    THEN {mc_first, [kind |-> "kept", call |-> call, result |-> result, between |-> FALSE]}
    ELSE {mc_first}

MonteCarloSimulationKept ==
    \E call \in McCallsKept :
        /\ MonteCarloCall(call)
        /\ mc_first' \in KeepFirst(call, mc_result')

NextMCKept == MonteCarloSimulationKept

SpecMCKept == InitMC /\ [][NextMCKept]_vars

-----------------------------------------------------------------------------
(* Claims about monte_carlo_simulation *)

McPool == MapSeq(mc_trades.rows, LAMBDA r : r["Profit"])

McReturned == mc_call.kind = "call" /\ mc_result.kind = "ndarray"

McNumTrades == IF mc_call.num_trades.given THEN mc_call.num_trades.value ELSE Len(McPool)

Occurrences(seq, v) == Cardinality({i \in DOMAIN seq : seq[i] = v})

\* a and b hold the same values the same number of times
SameMultiset(a, b) ==
    /\ Len(a) = Len(b)
    /\ \A v \in SeqToSet(a) \cup SeqToSet(b) : Occurrences(a, v) = Occurrences(b, v)

ShuffledFullLength ==
    /\ McReturned
    /\ mc_call.method = "randomized_shuffling"
    /\ McNumTrades = Len(McPool)

\* C3: with method 'randomized_shuffling' and num_trades equal to the pool size,
\* every row of the returned matrix is a permutation of the ledger's Profit
\* pool, for every num_simulations and every seed.
C3_ShuffledRowsArePermutations ==
    ShuffledFullLength =>
        \A i \in DOMAIN mc_result.rows : SameMultiset(mc_result.rows[i], McPool)

\* two paths of one seeded batch that are different orders of the pool
C3_Witness ==
    /\ ShuffledFullLength
    /\ mc_call.seed.given
    /\ mc_call.num_trades.given
    /\ Len(mc_result.rows) >= 2
    /\ mc_result.rows[1] # McPool
    /\ mc_result.rows[1] # mc_result.rows[2]

\* C4: with method 'random_choice' every entry of the returned matrix is a value
\* of the ledger's Profit column, for every num_simulations, every num_trades
\* (also above the pool size) and every seed.
C4_ChoiceEntriesComeFromPool ==
    (McReturned /\ mc_call.method = "random_choice") =>
        \A i \in DOMAIN mc_result.rows :
            \A j \in DOMAIN mc_result.rows[i] :
                mc_result.rows[i][j] \in SeqToSet(McPool)

\* a path longer than the pool, so that some value is drawn twice
C4_Witness ==
    /\ McReturned
    /\ mc_call.method = "random_choice"
    /\ McNumTrades > Len(McPool)
    /\ Len(McPool) >= 2
    /\ Cardinality(SeqToSet(mc_result.rows[1])) >= 2

\* C5: two calls with the same ledger, num_simulations, num_trades, method and
\* the same seed return identical matrices, whatever calls were made before or
\* between them.
C5_SameSeedSameMatrix ==
    (mc_first.kind = "kept" /\ mc_call = mc_first.call) =>
        mc_result = mc_first.result

\* the kept call is repeated after an unseeded call has moved the generator
C5_Witness ==
    /\ mc_first.kind = "kept"
    /\ mc_first.between
    /\ mc_call = mc_first.call
    /\ McReturned
    /\ Cardinality(SeqToSet(mc_result.rows[1])) >= 2

-----------------------------------------------------------------------------
(***************************************************************************)
(* Floating-point values.  A float is a fraction num/den with den > 0, or  *)
(* one of nan, inf, -inf.  Every comparison with nan is false, and a       *)
(* division by zero gives nan (0/0) or an infinity, as numpy does.         *)
(***************************************************************************)

Num(n, d) == [kind |-> "num", num |-> n, den |-> d]
NaN == [kind |-> "nan", num |-> 0, den |-> 1]
PosInf == [kind |-> "inf", num |-> 1, den |-> 1]
NegInf == [kind |-> "-inf", num |-> 0 - 1, den |-> 1]

Whole(n) == Num(n, 1)

IsFinite(x) == x.kind = "num"

\* x < y
FLess(x, y) ==
    CASE x.kind = "nan" \/ y.kind = "nan"   -> FALSE
      [] x.kind = "num" /\ y.kind = "num"   -> x.num * y.den < y.num * x.den
      [] x.kind = "-inf"                    -> y.kind # "-inf"
      [] x.kind = "inf"                     -> FALSE
      [] OTHER                              -> y.kind = "inf"

\* x <= y
FLessEq(x, y) ==
    CASE x.kind = "nan" \/ y.kind = "nan"   -> FALSE
      [] x.kind = "num" /\ y.kind = "num"   -> x.num * y.den <= y.num * x.den
      [] OTHER                              -> x.kind = y.kind \/ FLess(x, y)

\* x / y for finite x and y
FDiv(x, y) ==
    IF y.num = 0
    THEN IF x.num = 0 THEN NaN ELSE IF x.num > 0 THEN PosInf ELSE NegInf
    ELSE IF y.num > 0 THEN Num(x.num * y.den, x.den * y.num)
    ELSE Num(0 - x.num * y.den, 0 - x.den * y.num)

\* x + y
FAdd(x, y) ==
    CASE x.kind = "nan" \/ y.kind = "nan"   -> NaN
      [] x.kind = "num" /\ y.kind = "num"   ->
            IF x.den = y.den THEN Num(x.num + y.num, x.den)
            ELSE Num(x.num * y.den + y.num * x.den, x.den * y.den)
      [] x.kind = "num"                     -> y
      [] y.kind = "num"                     -> x
      [] OTHER                              -> IF x.kind = y.kind THEN x ELSE NaN

\* x == y
FEq(x, y) ==
    CASE x.kind = "nan" \/ y.kind = "nan"   -> FALSE
      [] x.kind = "num" /\ y.kind = "num"   -> x.num * y.den = y.num * x.den
      [] OTHER                              -> x.kind = y.kind

\* x * k for an integer k > 0
FScale(x, k) == IF x.kind = "num" THEN Num(x.num * k, x.den) ELSE x

-----------------------------------------------------------------------------
(***************************************************************************)
(* Streaks: metrics_calculation.max_consecutive_losses / _wins             *)
(***************************************************************************)

\* (mutant: a trade that makes nothing counts as a loss)
IsLossOrFlat(profit) == profit <= 0

\* if profit < 0
IsLoss(profit) == profit < 0

\* if profit > 0
IsWin(profit) == profit > 0

RECURSIVE StreakLoop(_, _, _, _)
\* the for loop of both functions from element i on: the streak counter is
\* incremented on a hit and the maximum raised, and reset otherwise
StreakLoop(hits, i, max_streak, current_streak) ==
    IF i > Len(hits) THEN max_streak
    ELSE IF hits[i]
         THEN StreakLoop(hits, i + 1,
                         IF current_streak + 1 > max_streak
                         THEN current_streak + 1 ELSE max_streak,
                         current_streak + 1)
         ELSE StreakLoop(hits, i + 1, max_streak, 0)

max_consecutive_losses(ps) == StreakLoop(MapSeq(ps, IsLoss), 1, 0, 0)

max_consecutive_wins(ps) == StreakLoop(MapSeq(ps, IsWin), 1, 0, 0)

StreakProfits == {-50, 0, 30}

SpecExample == <<100, -50, -50, -50, 30, -10>>

InitStreaks ==
    /\ net_profits \in SeqsUpTo(StreakProfits, MaxLen) \cup {SpecExample}
    /\ streaks = NoneVal
    /\ OthersIdle("streaks")

\* calculate_metrics: max_consec_losses / max_consec_wins of the net net_profits
MaxConsecutive ==
    /\ streaks = NoneVal
    /\ streaks' = [kind   |-> "streaks",
                   losses |-> max_consecutive_losses(net_profits),
                   wins   |-> max_consecutive_wins(net_profits)]
    /\ UNCHANGED net_profits
    /\ OthersUnchanged("streaks")

NextStreaks == MaxConsecutive

SpecStreaks == InitStreaks /\ [][NextStreaks]_vars

\* the length of the longest run of consecutive elements of seq satisfying Test
LongestRun(seq, Test(_)) ==
    LET runs == {<<i, j>> \in (DOMAIN seq) \X (DOMAIN seq) :
                    i <= j /\ \A k \in i..j : Test(seq[k])}
    IN  IF runs = {} THEN 0
        ELSE LET longest == CHOOSE r \in runs :
                                \A q \in runs : q[2] - q[1] <= r[2] - r[1]
             IN  longest[2] - longest[1] + 1

\* C6: max_consecutive_losses is the length of the longest run of consecutive
\* strictly negative values and max_consecutive_wins that of the longest run of
\* strictly positive values, a zero ending both kinds of run; the example of the
\* spec gives 3 losses and 1 win, the empty sequence 0 and 0.
C6_StreaksAreLongestRuns ==
    streaks.kind = "streaks" =>
        /\ streaks.losses = LongestRun(net_profits, LAMBDA p : p < 0)
        /\ streaks.wins = LongestRun(net_profits, LAMBDA p : p > 0)
        /\ net_profits = SpecExample => (streaks.losses = 3 /\ streaks.wins = 1)
        /\ net_profits = <<>> => (streaks.losses = 0 /\ streaks.wins = 0)

\* a zero between two losses: the losing run is cut in two
C6_Witness ==
    /\ streaks.kind = "streaks"
    /\ net_profits = <<-50, 0, -50, 30>>
    /\ streaks.losses = 1
    /\ streaks.wins = 1

\* the example of the spec has been computed
C6_WitnessExample ==
    /\ streaks.kind = "streaks"
    /\ net_profits = SpecExample

-----------------------------------------------------------------------------
(***************************************************************************)
(* SQN label: utils.interpret_sqn                                          *)
(***************************************************************************)

\* the if / elif chain; a comparison with nan is false, so nan falls through
\* every test to the else branch
interpret_sqn(x) ==
    IF FLess(x, Whole(1)) THEN "Very hard to trade"
    ELSE IF FLessEq(Whole(1), x) /\ FLess(x, Whole(2)) THEN "Average"
    ELSE IF FLessEq(Whole(2), x) /\ FLess(x, Whole(3)) THEN "Good"
    ELSE IF FLessEq(Whole(3), x) /\ FLess(x, Whole(5)) THEN "Excellent"
    ELSE IF FLessEq(Whole(5), x) /\ FLess(x, Whole(7)) THEN "Superb"
    ELSE "Holy Grail"

\* SQN values in hundredths, and the values that are not finite: the SQN of a
\* ledger of one trade is nan, its standard deviation being nan
SqnValues ==
    {Num(h, 100) : h \in (0 - MaxSqn)..MaxSqn} \cup {NaN, PosInf, NegInf}

InitSqn ==
    /\ sqn \in SqnValues
    /\ sqn_label = ""
    /\ OthersIdle("sqn")

\* calculate_metrics: f"{round(sqn, 2)} ({interpret_sqn(sqn)})"
InterpretSqn ==
    /\ sqn_label = ""
    /\ sqn_label' = interpret_sqn(sqn)
    /\ UNCHANGED sqn
    /\ OthersUnchanged("sqn")

NextSqn == InterpretSqn

SpecSqn == InitSqn /\ [][NextSqn]_vars

\* the label the fixed thresholds give to a value
ThresholdLabel(x) ==
    CASE FLess(x, Whole(1))                            -> "Very hard to trade"
      [] FLessEq(Whole(1), x) /\ FLess(x, Whole(2))    -> "Average"
      [] FLessEq(Whole(2), x) /\ FLess(x, Whole(3))    -> "Good"
      [] FLessEq(Whole(3), x) /\ FLess(x, Whole(5))    -> "Excellent"
      [] FLessEq(Whole(5), x) /\ FLess(x, Whole(7))    -> "Superb"
      [] FLessEq(Whole(7), x)                          -> "Holy Grail"
      [] OTHER                                         -> "no label"

\* C9: interpret_sqn gives every SQN value the label of its threshold interval
\* (0.99 'Very hard to trade', 1.0 'Average', 6.99 'Superb', 7.0 'Holy Grail'),
\* and 'Holy Grail' is returned only for values of at least 7.
C9_LabelFollowsThresholds ==
    sqn_label # "" =>
        /\ sqn_label = ThresholdLabel(sqn)
        /\ sqn_label = "Holy Grail" => FLessEq(Whole(7), sqn)

-----------------------------------------------------------------------------
(***************************************************************************)
(* Drawdown: monte_carlo.calculate_max_drawdown                            *)
(***************************************************************************)

\* an array of ndim dimensions, held as its rows (a one-dimensional array is
\* held as the one row that reshape(1, -1) makes of it); a list is not an array
NdArray(ndim, data) == [kind |-> "ndarray", ndim |-> ndim, data |-> data]
PyList(data) == [kind |-> "list", ndim |-> 1, data |-> data]

\* (mutant: the running peak is the divisor as it is)
RawRollMax(peak) == peak

\* np.where(roll_max == 0, 1, roll_max)
SafeRollMax(peak) == IF peak = 0 THEN 1 ELSE peak

RECURSIVE MaximumAccumulate(_, _)
\* np.maximum.accumulate along one row: the running peak up to column i
MaximumAccumulate(row, i) ==
    IF i = 1 THEN row[1]
    ELSE LET before == MaximumAccumulate(row, i - 1)
         IN  IF row[i] > before THEN row[i] ELSE before

\* roll_max - cumulative_profits, and in percentage mode
\* (drawdowns / safe_roll_max) * 100, for one row
DrawdownsOfRow(row, percentage) ==
    [i \in DOMAIN row |->
        LET roll_max == MaximumAccumulate(row, i)
            drawdown == roll_max - row[i]
        IN  IF percentage
            THEN FScale(FDiv(Whole(drawdown), Whole(SafeRollMax(roll_max))), 100)
            ELSE Whole(drawdown)]

\* ndarray.max over one row: nan if any element is nan, else the greatest
RowMax(values) ==
    IF \E i \in DOMAIN values : values[i].kind = "nan" THEN NaN
    ELSE values[CHOOSE i \in DOMAIN values :
                    \A j \in DOMAIN values : FLessEq(values[j], values[i])]

calculate_max_drawdown(array, percentage) ==
    IF array.kind # "ndarray" THEN Raised("TypeError")
    ELSE IF array.ndim \notin {1, 2} THEN Raised("ValueError")
    ELSE LET rows == array.data
         IN  IF \E r \in DOMAIN rows : Len(rows[r]) = 0
             THEN Raised("ValueError")   \* max of a zero-size axis
             ELSE Matrix(MapSeq(rows,
                                LAMBDA row : RowMax(DrawdownsOfRow(row, percentage))))

CumulativeValues == {-10, 0, 10}

CumulativeRows(n) == [1..n -> CumulativeValues]

\* one-dimensional arrays, matrices of one and two paths, a three-dimensional
\* array and a plain list
CumulativeArrays ==
    {NdArray(1, <<row>>) : row \in SeqsUpTo(CumulativeValues, MaxCols)}
    \cup {NdArray(2, <<row>>) : row \in SeqsUpTo(CumulativeValues, MaxCols)}
    \cup UNION {{NdArray(2, <<r1, r2>>) : r1 \in CumulativeRows(n), r2 \in CumulativeRows(n)} :
                   n \in 1..MaxCols}
    \cup {NdArray(3, <<<<0, 10>>>>), PyList(<<<<0, 10>>>>)}

InitDD ==
    /\ cumulative_profits \in CumulativeArrays
    /\ as_percentage \in BOOLEAN
    /\ max_drawdowns = NoneVal
    /\ OthersIdle("dd")

CalculateMaxDrawdown ==
    /\ max_drawdowns = NoneVal
    /\ max_drawdowns' = calculate_max_drawdown(cumulative_profits, as_percentage)
    /\ UNCHANGED <<cumulative_profits, as_percentage>>
    /\ OthersUnchanged("dd")

NextDD == CalculateMaxDrawdown

SpecDD == InitDD /\ [][NextDD]_vars

\* the rows of the array as the function sees them
DdRows == cumulative_profits.data

\* the running peak of row r is 0 at some column where the value is below it
ZeroPeakWithDrawdown(r) ==
    \E i \in DOMAIN DdRows[r] :
        /\ MaximumAccumulate(DdRows[r], i) = 0
        /\ DdRows[r][i] < 0

FlatRow(r) == \A i, j \in DOMAIN DdRows[r] : DdRows[r][i] = DdRows[r][j]

\* C8: in percentage mode every value calculate_max_drawdown returns is a
\* finite number, whatever the matrix, a running peak of 0 included, and a row
\* whose values are all equal yields exactly 0.
C8_PercentageDrawdownIsFinite ==
    (max_drawdowns.kind = "ndarray" /\ as_percentage) =>
        \A r \in DOMAIN max_drawdowns.rows :
            /\ IsFinite(max_drawdowns.rows[r])
            /\ FlatRow(r) => max_drawdowns.rows[r].num = 0

\* a matrix of two paths: one with a running peak of 0 and a value below it, the
\* other flat and not zero
C8_Witness ==
    /\ max_drawdowns.kind = "ndarray"
    /\ as_percentage
    /\ cumulative_profits.ndim = 2
    /\ Len(DdRows) = 2
    /\ ZeroPeakWithDrawdown(1)
    /\ FlatRow(2) /\ DdRows[2][1] # 0

-----------------------------------------------------------------------------
(***************************************************************************)
(* Dates.  A cell of a datetime column is a timestamp or NaT; a cell of a   *)
(* column that is not yet one may be a text no date can be read from.      *)
(***************************************************************************)

TimestampAt(y, m, d, h) ==
    [kind |-> "Timestamp", year |-> y, month |-> m, day |-> d, hour |-> h]
Timestamp(y, m, d) == TimestampAt(y, m, d, 0)
NaT == [kind |-> "NaT", year |-> 0, month |-> 0, day |-> 0, hour |-> 0]
DateText == [kind |-> "Text", year |-> 0, month |-> 0, day |-> 0, hour |-> 0]

\* the order of timestamps
DateKey(t) == ((t.year * 100 + t.month) * 100 + t.day) * 100 + t.hour

RECURSIVE SumSeq(_)
\* Series.sum()
SumSeq(values) == IF values = <<>> THEN 0 ELSE Head(values) + SumSeq(Tail(values))

RECURSIVE SortValues(_, _)
\* sort_values(by=col) on a column of timestamps: rows in ascending order of
\* col, rows of equal date in their former order (the sort of a short column is
\* an insertion sort)
SortValues(rows, col) ==
    IF rows = <<>> THEN <<>>
    ELSE LET last == rows[Len(rows)]
             sorted == SortValues(SubSeq(rows, 1, Len(rows) - 1), col)
             k == Cardinality({i \in DOMAIN sorted :
                                 DateKey(sorted[i][col]) <= DateKey(last[col])})
         IN  SubSeq(sorted, 1, k) \o <<last>> \o SubSeq(sorted, k + 1, Len(sorted))

\* drop_duplicates(subset=[col]): the first row of every date is kept
DropDuplicates(rows, col) ==
    LET kept == {i \in DOMAIN rows : \A j \in 1..(i - 1) : rows[j][col] # rows[i][col]}
        Pick(i) == kept # {} /\ i \in kept
    IN  MapSeq(SelectSeq([i \in DOMAIN rows |-> i], Pick), LAMBDA i : rows[i])

-----------------------------------------------------------------------------
(***************************************************************************)
(* Metrics: metrics_calculation.calculate_metrics, as far as the count of  *)
(* trades, the win rate, the streaks and the buy-and-hold return go; the   *)
(* other entries of the report are computed from the same sorted ledger    *)
(* and do not change what is modelled here.                                *)
(***************************************************************************)

\* first_trade = trades_sorted.iloc[0] raises IndexError on a ledger without
\* rows; the return is that of the entry price from the first date to the last
calculate_buy_and_hold(trades, date_column) ==
    LET trades_sorted == DropDuplicates(SortValues(trades.rows, date_column), date_column)
    IN  IF ~HasColumn(trades, date_column) THEN Raised("KeyError")
        ELSE IF \E i \in DOMAIN trades.rows : trades.rows[i][date_column].kind = "Text"
        THEN Raised("ValueError")
        ELSE IF Len(trades_sorted) = 0 THEN Raised("IndexError")
        ELSE IF ~HasColumn(trades, "Entry Price") THEN Raised("KeyError")
        ELSE LET buy_price == trades_sorted[1]["Entry Price"]
                 last_price == trades_sorted[Len(trades_sorted)]["Entry Price"]
             IN  [kind |-> "returned",
                  pct  |-> FScale(FDiv(Whole(last_price - buy_price), Whole(buy_price)), 100)]

\* Series.mean(): nan for a series without values
Mean(values) == IF values = <<>> THEN NaN ELSE Num(SumSeq(values), Len(values))

\* x or 0: 0 when x is 0, and x otherwise; nan is not 0
OrZero(x) == IF x.kind = "num" /\ x.num = 0 THEN Whole(0) ELSE x

\* abs(x)
FAbs(x) ==
    CASE x.kind = "num"  -> IF x.num < 0 THEN Num(0 - x.num, x.den) ELSE x
      [] x.kind = "-inf" -> PosInf
      [] OTHER           -> x

\* x / y where x or y may be nan
FQuot(x, y) == IF x.kind = "nan" \/ y.kind = "nan" THEN NaN ELSE FDiv(x, y)

\* abs(average_loss) / average_win if average_win != 0 else np.inf
RiskRewardRatio(values) ==
    LET average_win == OrZero(Mean(SelectSeq(values, IsWin)))
        average_loss == OrZero(Mean(SelectSeq(values, IsLoss)))
    IN  IF ~FEq(average_win, Whole(0)) THEN FQuot(FAbs(average_loss), average_win)
        ELSE PosInf

\* days from the first of January; the ledgers of the model stay within 2024
DayNumber(t) ==
    <<0, 31, 60, 91, 121, 152, 182, 213, 244, 274, 305, 335>>[t.month] + t.day

\* the index has a daily frequency of its own: three or more timestamps, each
\* a day after the one before
InferredDaily(stamps) ==
    /\ Len(stamps) >= 3
    /\ \A i \in 1..(Len(stamps) - 1) :
          /\ DayNumber(stamps[i + 1]) = DayNumber(stamps[i]) + 1
          /\ stamps[i + 1].hour = stamps[i].hour

\* groupby(date_column)['Net Profit'].sum(), cumsum() + initial_balance,
\* set_index(date_column), resample('D').ffill(): one row per midnight from the
\* day of the first timestamp to the day of the last.  The balances are laid
\* on the new index as they are when the index is daily already; otherwise a
\* midnight holds the balance of the last timestamp not after it, nan if none
EquityCurve(sorted, date_column, initial_balance) ==
    LET stamps == MapSeq(DropDuplicates(sorted, date_column), LAMBDA r : r[date_column])
        Cumulative(k) ==
            initial_balance
              + SumSeq(MapSeq(SelectSeq(sorted,
                                  LAMBDA r : DateKey(r[date_column]) <= DateKey(stamps[k])),
                              LAMBDA r : r["Net Profit"]))
        first_day == DayNumber(stamps[1])
        last_day == DayNumber(stamps[Len(stamps)])
        Seen(day) ==
            Cardinality({k \in DOMAIN stamps :
                            \/ DayNumber(stamps[k]) < day
                            \/ DayNumber(stamps[k]) = day /\ stamps[k].hour = 0})
    IN  IF Len(stamps) = 0 THEN <<>>
        ELSE [i \in 1..(last_day - first_day + 1) |->
                [day     |-> first_day + i - 1,
                 balance |-> IF InferredDaily(stamps) THEN Whole(Cumulative(i))
                             ELSE IF Seen(first_day + i - 1) = 0 THEN NaN
                             ELSE Whole(Cumulative(Seen(first_day + i - 1)))]]

\* x - y
FSub(x, y) ==
    IF x.kind = "num" /\ y.kind = "num"
    THEN Num(x.num * y.den - y.num * x.den, x.den * y.den)
    ELSE NaN

RECURSIVE CumMaxLoop(_, _, _, _)
\* the running peak from position i on: peak is the greatest value before i
\* (nan if there is none yet), done the positions already filled
CumMaxLoop(series, i, peak, done) ==
    IF i > Len(series) THEN done
    ELSE IF series[i].kind = "nan"
    THEN CumMaxLoop(series, i + 1, peak, Append(done, NaN))
    ELSE LET raised == IF peak.kind = "nan" \/ FLess(peak, series[i])
                       THEN series[i] ELSE peak
         IN  CumMaxLoop(series, i + 1, raised, Append(done, raised))

\* Series.cummax(): at every position the greatest value so far, the missing
\* values skipped; nan where the value itself is missing
CumMax(series) == CumMaxLoop(series, 1, NaN, <<>>)

\* Series.max(): the greatest of the values that are not missing, nan if none
SeriesMax(series) ==
    LET present == {i \in DOMAIN series : series[i].kind # "nan"}
    IN  IF present = {} THEN NaN
        ELSE series[CHOOSE i \in present : \A j \in present : FLessEq(series[j], series[i])]

\* rolling_max = cumulative_profit.cummax(); drawdown = rolling_max -
\* cumulative_profit; max_drawdown = drawdown.max()
MaxDrawdown(cumulative_profit) ==
    LET rolling_max == CumMax(cumulative_profit)
    IN  SeriesMax([i \in DOMAIN cumulative_profit |->
                      FSub(rolling_max[i], cumulative_profit[i])])

\* (max_drawdown / initial_balance) * 100 if initial_balance != 0 else 0
PercentageDrawdown(max_drawdown, initial_balance) ==
    IF initial_balance # 0
    THEN FScale(FQuot(max_drawdown, Whole(initial_balance)), 100)
    ELSE Whole(0)

\* (mutant: a day at the running peak counts as a day of drawdown)
AtOrBelowPeak(value, peak) == FLessEq(value, peak)

\* in_drawdown = cumulative_profit < rolling_max
BelowPeak(value, peak) == FLess(value, peak)

\* the loop over in_drawdown is the loop of the streak functions
max_drawdown_period(cumulative_profit) ==
    LET rolling_max == CumMax(cumulative_profit)
    IN  StreakLoop([i \in DOMAIN cumulative_profit |->
                       BelowPeak(cumulative_profit[i], rolling_max[i])],
                   1, 0, 0)

\* equity_curve['Cumulative Profit']
CumulativeProfit(equity_curve) == MapSeq(equity_curve, LAMBDA row : row.balance)

calculate_metrics(trades, date_column, initial_balance, buy_and_hold) ==
    LET sorted == SortValues(trades.rows, date_column)
        number_of_trades == Len(sorted)
        winning_trades == Cardinality({i \in DOMAIN sorted : sorted[i]["Net Profit"] > 0})
        winning_percentage ==
            IF number_of_trades > 0
            THEN FScale(FDiv(Whole(winning_trades), Whole(number_of_trades)), 100)
            ELSE Whole(0)
        values == MapSeq(sorted, LAMBDA r : r["Net Profit"])
        bah == IF buy_and_hold
               THEN calculate_buy_and_hold(Frame(trades.columns, sorted), date_column)
               ELSE [kind |-> "returned", pct |-> NaN]
        equity_curve == EquityCurve(sorted, date_column, initial_balance)
        max_drawdown == MaxDrawdown(CumulativeProfit(equity_curve))
    IN  IF ~HasColumn(trades, date_column) THEN Raised("KeyError")
        ELSE IF \E i \in DOMAIN trades.rows : trades.rows[i][date_column].kind = "Text"
        THEN Raised("ValueError")   \* pd.to_datetime cannot read the date
        ELSE IF ~HasColumn(trades, "Net Profit") THEN Raised("KeyError")
        ELSE IF bah.kind # "returned" THEN Raised(bah.kind)
        ELSE [kind            |-> "metrics",
              trades          |-> number_of_trades,
              win_rate        |-> winning_percentage,
              total           |-> SumSeq(values),
              losses          |-> max_consecutive_losses(values),
              wins            |-> max_consecutive_wins(values),
              risk_reward     |-> RiskRewardRatio(values),
              initial_balance |-> initial_balance,
              equity_curve    |-> equity_curve,
              max_drawdown    |-> max_drawdown,
              percentage_drawdown |-> PercentageDrawdown(max_drawdown, initial_balance),
              dd_period       |-> max_drawdown_period(CumulativeProfit(equity_curve)),
              buy_and_hold    |-> buy_and_hold,
              \* (buy_and_hold_return_dollar / initial_balance) * 100
              buy_and_hold_pct |-> IF initial_balance = 0 THEN NaN ELSE bah.pct]

\* initial_balance=10000.0
DefaultBalance == 10000

ledger_columns == <<"Entry Date", "Net Profit", "Entry Price">>

\* trades at midnight and at ten in the morning, on three days in a row
LedgerDates ==
    {TimestampAt(2024, 3, 1, 0), TimestampAt(2024, 3, 3, 0),
     TimestampAt(2024, 3, 1, 10), TimestampAt(2024, 3, 2, 10), TimestampAt(2024, 3, 3, 10)}

LedgerRow(d, p, e) == ("Entry Date" :> d) @@ ("Net Profit" :> p) @@ ("Entry Price" :> e)

LedgerRows ==
    {LedgerRow(d, pe[1], pe[2]) : d \in LedgerDates, pe \in {<<-5, 100>>, <<10, 110>>}}

\* ledgers that lack one of the columns, with no row and with one row
LedgersLacking ==
    {SelectColumns(Frame(ledger_columns, rows), SelectSeq(ledger_columns, LAMBDA c : c # lacking)) :
        rows \in {<<>>, <<LedgerRow(TimestampAt(2024, 3, 1, 0), 10, 110)>>},
        lacking \in SeqToSet(ledger_columns)}

\* a ledger whose date column holds a text that is no date
LedgersUnparsed == {Frame(ledger_columns, <<LedgerRow(DateText, 10, 110)>>)}

Ledgers ==
    {Frame(ledger_columns, rows) : rows \in SeqsUpTo(LedgerRows, MaxTrades)}
    \cup LedgersLacking \cup LedgersUnparsed

InitCM ==
    /\ cm_trades \in Ledgers
    /\ include_buy_and_hold \in BOOLEAN
    /\ cm_result = NoneVal
    /\ OthersIdle("cm")

\* st.number_input("Initial Balance", min_value=0.0, value=10000.0)
InitialBalances == {0, DefaultBalance}

\* the function works on a copy: the caller's ledger is left as it was
CalculateMetrics ==
    /\ cm_result = NoneVal
    /\ \E initial_balance \in InitialBalances :
          cm_result' = calculate_metrics(cm_trades, "Entry Date", initial_balance,
                                        include_buy_and_hold)
    /\ UNCHANGED <<cm_trades, include_buy_and_hold>>
    /\ OthersUnchanged("cm")

NextCM == CalculateMetrics

SpecCM == InitCM /\ [][NextCM]_vars

\* C7: for a ledger with no trades calculate_metrics raises no exception and
\* reports a win rate of 0, not NaN.
C7_EmptyLedgerWinRateIsZero ==
    (cm_result.kind # "None" /\ Len(cm_trades.rows) = 0) =>
        /\ cm_result.kind = "metrics"
        /\ cm_result.win_rate.kind = "num"
        /\ cm_result.win_rate.num = 0

-----------------------------------------------------------------------------
(***************************************************************************)
(* Monthly table: visualize.monthly_performance_table and its twin in      *)
(* portfolio_tab, up to reset_index; the display formats monthly_pivot     *)
(* cell by cell.                                                           *)
(***************************************************************************)

\* dt.month_name()
month_name ==
    <<"January", "February", "March", "April", "May", "June",
      "July", "August", "September", "October", "November", "December">>

\* dt.month_name().str.slice(stop=3)
month_name_short ==
    <<"Jan", "Feb", "Mar", "Apr", "May", "Jun",
      "Jul", "Aug", "Sep", "Oct", "Nov", "Dec">>

\* month_order of visualize.py
month_order_visualize ==
    <<"January", "February", "March", "April", "May", "June",
      "July", "August", "September", "October", "November", "December">>

\* month_order of portfolio_tab.py
month_order_portfolio ==
    <<"Jan", "Feb", "Mar", "Apr", "May", "Jun",
      "Jul", "Aug", "Sep", "Oct", "Nov", "Dec">>

\* the column summed: 'Profit' in visualize.py, 'Net Profit' in portfolio_tab.py
ValueColumn(version) == IF version = "visualize" THEN "Profit" ELSE "Net Profit"

MonthOrder(version) ==
    IF version = "visualize" THEN month_order_visualize ELSE month_order_portfolio

\* the 'Month' cell of a row
MonthText(version, t) ==
    IF t.kind = "NaT" THEN "nan"
    ELSE IF version = "visualize" THEN month_name[t.month] ELSE month_name_short[t.month]

\* dt.year.astype(str): the year column is an integer column, unless a date is
\* NaT, which makes it a float column
YearText(t, as_float) ==
    CASE t.kind = "NaT"                  -> "nan"
      [] t.year = 2023 /\ ~as_float      -> "2023"
      [] t.year = 2023 /\ as_float       -> "2023.0"
      [] t.year = 2024 /\ ~as_float      -> "2024"
      [] t.year = 2024 /\ as_float       -> "2024.0"
      [] t.year = 2025 /\ ~as_float      -> "2025"
      [] OTHER                           -> "2025.0"

\* dt.month
MonthNum(t) == IF t.kind = "NaT" THEN NaN ELSE Whole(t.month)

\* the three columns the function adds to the caller's frame
WithYearAndMonth(df, date_column, version) ==
    LET as_float == \E i \in DOMAIN df.rows : df.rows[i][date_column].kind = "NaT"
        year == AssignColumn(df, "Year", LAMBDA r : YearText(r[date_column], as_float))
        month == AssignColumn(year, "Month", LAMBDA r : MonthText(version, r[date_column]))
    IN  AssignColumn(month, "Month_Num", LAMBDA r : MonthNum(r[date_column]))

RECURSIVE SortedTexts(_)
\* the year labels in index order; labels of one format sort as their years do
SortedTexts(texts) ==
    IF texts = {} THEN <<>>
    ELSE LET first == CHOOSE t \in texts :
                        \A u \in texts :
                            \A ty, uy \in {2023, 2024, 2025} :
                                (t \in {YearText(Timestamp(ty, 1, 1), a) : a \in BOOLEAN}
                                 /\ u \in {YearText(Timestamp(uy, 1, 1), a) : a \in BOOLEAN})
                                => ty <= uy
         IN  <<first>> \o SortedTexts(texts \ {first})

\* groupby(['Year', 'Month_Num', 'Month'])[value].sum(), then pivot_table with
\* index Year, columns Month and fill_value=0: a row per year, a column per
\* month name that occurs; rows whose Month_Num is NaN belong to no group
PivotTable(df, value) ==
    LET grouped == SelectSeq(df.rows, LAMBDA r : r["Month_Num"].kind = "num")
        years == {grouped[i]["Year"] : i \in DOMAIN grouped}
        months == {grouped[i]["Month"] : i \in DOMAIN grouped}
        Cell(y, m) ==
            SumSeq(MapSeq(SelectSeq(grouped, LAMBDA r : r["Year"] = y /\ r["Month"] = m),
                          LAMBDA r : r[value]))
    IN  [index   |-> SortedTexts(years),
         columns |-> months,
         cells   |-> [y \in years |-> [m \in months |-> Cell(y, m)]]]

\* reindex(columns=month_order, fill_value=0)
Reindex(pivot, month_order) ==
    [index   |-> pivot.index,
     columns |-> month_order,
     cells   |-> [y \in DOMAIN pivot.cells |->
                    [m \in SeqToSet(month_order) |->
                        IF m \in pivot.columns THEN pivot.cells[y][m] ELSE 0]]]

\* monthly_pivot['YTD'] = monthly_pivot.sum(axis=1)
WithYTD(pivot) ==
    [index   |-> pivot.index,
     columns |-> Append(pivot.columns, "YTD"),
     cells   |-> [y \in DOMAIN pivot.cells |->
                    ("YTD" :> SumSeq(MapSeq(pivot.columns, LAMBDA m : pivot.cells[y][m])))
                    @@ pivot.cells[y]]]

\* (monthly_pivot / initial_balance) * 100 in percentage mode
CellValue(cell, mode, initial_balance) ==
    IF mode = "Percentage (%)"
    THEN FScale(FDiv(Whole(cell), Whole(initial_balance)), 100)
    ELSE Whole(cell)

\* monthly_pivot after reset_index: the frame and the table
monthly_performance_table(version, df, date_column, initial_balance, mode) ==
    LET trades == WithYearAndMonth(df, date_column, version)
        pivot == WithYTD(Reindex(PivotTable(trades, ValueColumn(version)),
                                 MonthOrder(version)))
    IN  [trades |-> trades,
         table  |-> Frame(<<"Year">> \o pivot.columns,
                          MapSeq(pivot.index,
                                 LAMBDA y : [Year  |-> y,
                                             cells |-> [m \in SeqToSet(pivot.columns) |->
                                                          CellValue(pivot.cells[y][m], mode,
                                                                    initial_balance)]]))]

MonthlyDates ==
    {Timestamp(y, m, 5) : y \in {2023, 2024}, m \in {3, 11}} \cup {NaT}

monthly_columns == <<"Entry Date", "Profit", "Net Profit">>

MonthlyRows ==
    {("Entry Date" :> d) @@ ("Profit" :> p) @@ ("Net Profit" :> p - 4) :
        d \in MonthlyDates, p \in {-5, 10}}

\* ledgers with at least one dated trade
MonthlyLedgers ==
    {Frame(monthly_columns, rows) :
        rows \in {r \in SeqsUpTo(MonthlyRows, MaxMonthly) :
                     \E i \in DOMAIN r : r[i]["Entry Date"].kind = "Timestamp"}}

\* the balance is a number input whose least value is 0
MonthlyCalls ==
    [kind            : {"call"},
     version         : {"visualize", "portfolio_tab"},
     mode            : {"Dollar ($)", "Percentage (%)"},
     initial_balance : {0, 200}]

InitMP ==
    /\ mp_trades \in MonthlyLedgers
    /\ mp_call \in MonthlyCalls
    /\ monthly_pivot = NoneVal
    /\ OthersIdle("mp")

MonthlyPerformanceTable ==
    /\ monthly_pivot = NoneVal
    /\ LET done == monthly_performance_table(mp_call.version, mp_trades, "Entry Date",
                                             mp_call.initial_balance, mp_call.mode)
       IN  /\ mp_trades' = done.trades
           /\ monthly_pivot' = done.table
    /\ UNCHANGED mp_call
    /\ OthersUnchanged("mp")

NextMP == MonthlyPerformanceTable

SpecMP == InitMP /\ [][NextMP]_vars

\* the (year, month) pairs in which the ledger has trades
TradedMonths ==
    {<<mp_trades.rows[i]["Entry Date"].year, mp_trades.rows[i]["Entry Date"].month>> :
        i \in {j \in DOMAIN mp_trades.rows : mp_trades.rows[j]["Entry Date"].kind = "Timestamp"}}

\* the year of a row of the table
YearOfRow(row) ==
    CHOOSE y \in {2023, 2024, 2025} :
        row.Year \in {YearText(Timestamp(y, 1, 1), a) : a \in BOOLEAN}

RECURSIVE FSumSeq(_)
FSumSeq(values) ==
    IF Len(values) = 1 THEN values[1] ELSE FAdd(Head(values), FSumSeq(Tail(values)))

CalendarMonths ==
    IF mp_call.version = "visualize"
    THEN <<"January", "February", "March", "April", "May", "June",
           "July", "August", "September", "October", "November", "December">>
    ELSE <<"Jan", "Feb", "Mar", "Apr", "May", "Jun",
           "Jul", "Aug", "Sep", "Oct", "Nov", "Dec">>

\* C10: the monthly table has one row per calendar year that has trades and
\* exactly twelve month columns, January to December; a month without trades
\* in that year holds 0 and the YTD of each row is the sum of its twelve month
\* values.
C10_TwelveMonthsAndYTD ==
    monthly_pivot.kind = "DataFrame" =>
        /\ monthly_pivot.columns = <<"Year">> \o CalendarMonths \o <<"YTD">>
        /\ Len(monthly_pivot.rows) = Cardinality({ym[1] : ym \in TradedMonths})
        /\ \A r \in DOMAIN monthly_pivot.rows :
              LET row == monthly_pivot.rows[r]
              IN  /\ \E ym \in TradedMonths : ym[1] = YearOfRow(row)
                  /\ \A s \in DOMAIN monthly_pivot.rows :
                        monthly_pivot.rows[s].Year = row.Year => s = r
                  /\ \A m \in 1..12 :
                        <<YearOfRow(row), m>> \notin TradedMonths =>
                            /\ row.cells[CalendarMonths[m]].kind = "num"
                            /\ row.cells[CalendarMonths[m]].num = 0
                  /\ FEq(row.cells["YTD"],
                         FSumSeq(MapSeq(CalendarMonths, LAMBDA m : row.cells[m])))

\* the exceptions a call can raise
RaisedKinds == {"KeyError", "ValueError", "IndexError", "TypeError"}

\* C11: calculate_metrics never raises to its caller: a failure of an internal
\* computation (a missing 'Net Profit' or 'Entry Price' column, a date that
\* cannot be parsed, an empty ledger) is caught and the call returns
\* (None, None).
C11_FailuresAreCaughtInside ==
    cm_result.kind # "None" => cm_result.kind \notin RaisedKinds

-----------------------------------------------------------------------------
(* Further claims about the normalizer *)

InFinalFormat(df) == \A c \in SeqToSet(final_format_cols) : HasColumn(df, c)

\* the input lacks what the pairing needs: a required column, a column
\* starting with 'Price', a column containing 'Profit', Entry rows or Exit rows
LacksPairingInput(df) ==
    \/ \E c \in {"Type", "Trade #", "Date/Time", "Contracts"} : ~HasColumn(df, c)
    \/ \A i \in DOMAIN df.columns : ~StartsWithPrice(df.columns[i])
    \/ \A i \in DOMAIN df.columns : ~ContainsProfit(df.columns[i])
    \/ \A i \in DOMAIN df.rows : ~TypeContains(df.rows[i]["Type"], "Entry")
    \/ \A i \in DOMAIN df.rows : ~TypeContains(df.rows[i]["Type"], "Exit")

\* what the call returned is a ledger or None
LedgerOrNone(ret) ==
    \/ ret.kind = "None"
    \/ /\ ret.kind = "DataFrame"
       /\ ret.columns \in {final_format_cols, paired_format_cols}

\* one error was reported, it names the file, and None was returned
ReportedAndNone(file, ret, errors) ==
    /\ ret.kind = "None"
    /\ Len(errors) = 1
    /\ errors[1].file = file

\* C12 as stated: format_trade_data never raises; it returns a ledger or None,
\* and whenever the input lacks a required column, a 'Price' column, a 'Profit'
\* column, Entry rows or Exit rows it reports an error naming the file and
\* returns None.
C12_AnyInputLackingIsReported ==
    [][(norm_path = "idle" /\ norm_path' # "idle") =>
          /\ LedgerOrNone(formatted')
          /\ LacksPairingInput(trade_data) =>
                ReportedAndNone(uploaded_name, formatted', st_errors')]_vars

\* C12, amended: format_trade_data never raises; it returns a ledger or None,
\* and whenever an input that does not already have all the final-format
\* columns lacks a required column, a 'Price' column, a 'Profit' column, Entry
\* rows or Exit rows it reports an error naming the file and returns None.
C12_LackingInputIsReported ==
    [][(norm_path = "idle" /\ norm_path' # "idle") =>
          /\ LedgerOrNone(formatted')
          /\ (~InFinalFormat(trade_data) /\ LacksPairingInput(trade_data)) =>
                ReportedAndNone(uploaded_name, formatted', st_errors')]_vars

\* a raw export without its 'Contracts' column has been refused
C12_Witness ==
    /\ norm_path = "failed"
    /\ formatted.kind = "None"
    /\ ~HasColumn(trade_data, "Contracts")
    /\ HasColumn(trade_data, "Date/Time")
    /\ Len(st_errors) = 1
    /\ st_errors[1].file = uploaded_name
    /\ st_errors[1].column = "Contracts"

\* C13: format_trade_data has no side effect: after a call, successful or
\* failed, by the pass-through path or the pairing path, the table passed in
\* has the same columns and the same cell values as before.
C13_InputTableIsUntouched ==
    [][(norm_path = "idle" /\ norm_path' # "idle") => trade_data' = trade_data]_vars

-----------------------------------------------------------------------------
(***************************************************************************)
(* Derived views: the tabs call calculate_metrics, calculate_buy_and_hold, *)
(* monte_carlo_simulation and monthly_performance_table on the ledgers of  *)
(* the strategies map, in any order and any number of times.               *)
(***************************************************************************)

view_columns == <<"Entry Date", "Profit", "Net Profit", "Entry Price">>

ViewRows ==
    {("Entry Date" :> d) @@ ("Profit" :> p) @@ ("Net Profit" :> p - 4) @@ ("Entry Price" :> 100) :
        d \in {Timestamp(2024, 3, 5), Timestamp(2024, 4, 5)}, p \in {-5, 10}}

ViewLedgers == {Frame(view_columns, rows) : rows \in SeqsUpTo(ViewRows, MaxMonthly)}

View(function, result) == [kind |-> "view", function |-> function, result |-> result.kind]

InitViews ==
    /\ ledger \in ViewLedgers
    /\ ledger_at_ingestion = ledger
    /\ ledger_view = NoneVal
    /\ OthersIdle("ledger")

\* individual_strategy_tab.py: metrics, equity_curve = calculate_metrics(...)
ViewMetrics ==
    /\ \E buy_and_hold \in BOOLEAN :
          ledger_view' = View("calculate_metrics",
                              calculate_metrics(ledger, "Entry Date", DefaultBalance,
                                                buy_and_hold))
    /\ UNCHANGED <<ledger, ledger_at_ingestion>>
    /\ OthersUnchanged("ledger")

ViewBuyAndHold ==
    /\ ledger_view' = View("calculate_buy_and_hold",
                           calculate_buy_and_hold(ledger, "Entry Date"))
    /\ UNCHANGED <<ledger, ledger_at_ingestion>>
    /\ OthersUnchanged("ledger")

\* monte_carlo_tab.py: simulated_trades = monte_carlo_simulation(...); the
\* global generator is left where the draws ended
ViewMonteCarlo ==
    /\ \E call \in McCallsKept :
          LET done == monte_carlo_simulation(ledger, call.num_simulations, call.num_trades,
                                             call.method, call.seed, np_random_state)
          IN  /\ ledger_view' = View("monte_carlo_simulation", done.ret)
              /\ np_random_state' = done.state
    /\ UNCHANGED <<ledger, ledger_at_ingestion>>
    /\ UNCHANGED <<mc_trades, mc_call, mc_result, mc_first>>
    /\ UNCHANGED <<normVars, streakVars, sqnVars, ddVars, cmVars, mpVars, uploadVars,
                   ddpVars, pathVars, clVars, entryVars, againVars, sidebarVars>>

\* individual_strategy_tab.py: monthly_performance_table(strategy_trades, ...),
\* which writes its three columns into the frame it is given
ViewMonthlyTable ==
    /\ \E call \in MonthlyCalls :
          LET done == monthly_performance_table(call.version, ledger, "Entry Date",
                                                call.initial_balance, call.mode)
          IN  /\ ledger' = done.trades
              /\ ledger_view' = View("monthly_performance_table", done.table)
    /\ UNCHANGED ledger_at_ingestion
    /\ OthersUnchanged("ledger")

NextViews ==
    \/ ViewMetrics
    \/ ViewBuyAndHold
    \/ ViewMonteCarlo
    \/ ViewMonthlyTable

SpecViews == InitViews /\ [][NextViews]_vars

\* C14: the ledger is immutable after ingestion: after any sequence of calls to
\* calculate_metrics, calculate_buy_and_hold, monte_carlo_simulation and
\* monthly_performance_table it has the same columns and the same values as
\* before the first call.
C14_LedgerIsImmutable ==
    ledger.kind = "DataFrame" => ledger = ledger_at_ingestion

-----------------------------------------------------------------------------
(* Further claims about monte_carlo_simulation *)

McHasProfit == HasColumn(mc_trades, "Profit")

McKnownMethod == mc_call.method \in {"random_choice", "randomized_shuffling"}

\* the three refusals of the engine
McRefusals ==
    /\ ~McHasProfit => mc_result.kind = "KeyError"
    /\ (McHasProfit /\ ~McKnownMethod) => mc_result.kind = "ValueError"
    /\ (McHasProfit /\ mc_call.method = "randomized_shuffling"
          /\ McNumTrades > Len(McPool)) => mc_result.kind = "ValueError"

\* C15 as stated: monte_carlo_simulation raises and returns no matrix when the
\* ledger has no 'Profit' column, when the method is unknown, or when the
\* method is 'randomized_shuffling' and num_trades exceeds the number of
\* historical trades; with 'random_choice' a num_trades above the pool size is
\* accepted.
C15_ChoiceAboveAnyPoolIsAccepted ==
    mc_call.kind = "call" =>
        /\ McRefusals
        /\ (McHasProfit /\ mc_call.method = "random_choice"
              /\ McNumTrades > Len(McPool)) => mc_result.kind = "ndarray"

\* C15, amended: the same three refusals; with 'random_choice' a num_trades
\* above the pool size is accepted when the ledger has at least one trade, and
\* refused with an error when it has none.
C15_ChoiceAboveNonEmptyPoolIsAccepted ==
    mc_call.kind = "call" =>
        /\ McRefusals
        /\ (McHasProfit /\ mc_call.method = "random_choice"
              /\ McNumTrades > Len(McPool)) =>
                IF Len(McPool) > 0 THEN mc_result.kind = "ndarray"
                ELSE mc_result.kind = "ValueError"

\* a path longer than a pool of one trade has been drawn by random_choice
C15_Witness ==
    /\ mc_call.kind = "call"
    /\ mc_call.method = "random_choice"
    /\ McHasProfit
    /\ Len(McPool) = 1
    /\ McNumTrades > 1
    /\ mc_result.kind = "ndarray"

\* C16: every successful call returns a matrix of exactly num_simulations rows
\* and num_trades columns, by either method; when num_trades is None the number
\* of columns is the number of trades of the ledger.
C16_MatrixShape ==
    McReturned =>
        /\ Len(mc_result.rows) = mc_call.num_simulations
        /\ \A i \in DOMAIN mc_result.rows :
              Len(mc_result.rows[i]) =
                  IF mc_call.num_trades.given THEN mc_call.num_trades.value
                  ELSE Len(mc_trades.rows)

\* one path over the whole ledger of two or more trades, num_trades left out
C16_Witness ==
    /\ McReturned
    /\ mc_call.method = "random_choice"
    /\ ~mc_call.num_trades.given
    /\ mc_call.num_simulations = 1
    /\ Len(mc_trades.rows) >= 2
    /\ Len(mc_result.rows[1]) = Len(mc_trades.rows)

\* the generator state k draws after `state`
AdvancedBy(state, k) == (state + k) % RngModulus

\* the draws a successful call makes: one per entry with random_choice, and
\* with randomized_shuffling one per position but the last of every permutation
DrawsMade(call, pool) ==
    IF call.method = "random_choice"
    THEN call.num_simulations
            * (IF call.num_trades.given THEN call.num_trades.value ELSE Len(pool))
    ELSE call.num_simulations * (IF Len(pool) = 0 THEN 0 ELSE Len(pool) - 1)

\* the state the draws of a call start from
DrawsStartAt(call, state) ==
    IF call.seed.given THEN SeedState(call.seed.value) ELSE state

\* C18: the seed is process-wide state: a call with a seed puts the generator
\* in the seed's state just before its draws, a call with seed=None draws from
\* where the previous call left the generator, and no call restores the
\* generator when it returns: it is left where the draws ended.  So what a
\* call returns is determined by the state its draws start from.
C18_SeedLifecycle ==
    [][\A call \in McCalls :
          (mc_call' = call /\ mc_result'.kind = "ndarray") =>
              LET start == DrawsStartAt(call, np_random_state)
              IN  /\ np_random_state' = AdvancedBy(start, DrawsMade(call, McPool))
                  /\ \A other \in RngStates :
                        (call.seed.given \/ other = np_random_state) =>
                            mc_result' =
                                monte_carlo_simulation(mc_trades, call.num_simulations,
                                    call.num_trades, call.method, call.seed, other).ret
                  /\ mc_result' =
                        monte_carlo_simulation(mc_trades, call.num_simulations,
                            call.num_trades, call.method, NotGiven, start).ret]_vars

\* an unseeded call has drawn from a generator that a seeded call before it
\* had left away from the seed's state
C18_Witness ==
    /\ McReturned
    /\ ~mc_call.seed.given
    /\ mc_first.kind = "kept"
    /\ mc_first.between
    /\ mc_first.result.kind = "ndarray"
    /\ np_random_state # SeedState(mc_first.call.seed.value)

-----------------------------------------------------------------------------
(***************************************************************************)
(* Upload: the loop of app.py over the uploaded files                      *)
(***************************************************************************)

\* a strategies map: the names it holds and the ledger of each
StrategyMap(names, LedgerOf(_)) == [kind |-> "dict", names |-> names, ledgers |-> [n \in names |-> LedgerOf(n)]]

EmptyMap == [kind |-> "dict", names |-> {}, ledgers |-> <<>>]

\* (mutant: whatever format_trade_data returned is stored)
StoreAlways(map, name, formatted_trades) ==
    [kind    |-> "dict",
     names   |-> map.names \cup {name},
     ledgers |-> (name :> formatted_trades) @@ map.ledgers]

\* if formatted_trades is not None: strategies[uploaded_file.name] = formatted_trades
StoreFormatted(map, name, formatted_trades) ==
    IF formatted_trades.kind # "None"
    THEN [kind    |-> "dict",
          names   |-> map.names \cup {name},
          ledgers |-> (name :> formatted_trades) @@ map.ledgers]
    ELSE map

\* the branch on the file name: read_csv, read_excel or ValueError
Reader(name) ==
    CASE name = "a.csv"  -> "read_csv"
      [] name = "b.xlsx" -> "read_excel"
      [] OTHER           -> "unsupported"

\* a file the reader cannot parse
Unreadable == [kind |-> "unreadable"]

\* the tables of the uploaded files: a raw export that pairs, one without its
\* 'Contracts' column, one without Exit rows, a final-format table
UploadedTables ==
    {Frame(RawColumns, <<RawRow("Entry Long", 1, <<100000, 10>>),
                         RawRow("Exit Long", 1, <<100000, 10>>)>>),
     SelectColumns(Frame(RawColumns, <<RawRow("Entry Long", 1, <<100000, 10>>)>>),
                   SelectSeq(RawColumns, LAMBDA c : c # "Contracts")),
     Frame(RawColumns, <<RawRow("Entry Long", 1, <<100000, 10>>)>>),
     Frame(final_format_cols, <<CanonicalRow(<<10, 6>>, "2024-03-01")>>)}

UploadedFile(name, content) == [name |-> name, content |-> content]

UploadedFiles ==
    {UploadedFile(n, c) : n \in FileNames, c \in UploadedTables \cup {Unreadable}}

SavedLedger == Frame(final_format_cols, <<CanonicalRow(<<-5, -9>>, "2024-03-01")>>)

\* what one pass of the loop body does with a file: the map afterwards and the
\* names reported (by the loop's except clause or by format_trade_data)
ProcessFile(map, file) ==
    IF Reader(file.name) = "unsupported" \/ file.content.kind = "unreadable"
    THEN [map |-> map, reported |-> <<file.name>>]
    ELSE LET call == format_trade_data(file.content, file.name)
         IN  [map      |-> StoreFormatted(map, file.name, call.ret),
              reported |-> MapSeq(call.error, LAMBDA e : e.file)]

InitUpload ==
    /\ saved_strategies \in
          {EmptyMap, StrategyMap({"old.csv.pkl"}, LAMBDA n : SavedLedger)}
    /\ uploaded_files \in SeqsUpTo(UploadedFiles, MaxFiles)
    /\ strategies = NoneVal
    /\ upload_index = 0
    /\ upload_errors = <<>>
    /\ OthersIdle("upload")

\* if uploaded_files: strategies = {**saved_strategies} ... else: strategies = saved_strategies
StartBatch ==
    /\ upload_index = 0
    /\ strategies' = saved_strategies
    /\ upload_index' = 1
    /\ UNCHANGED <<saved_strategies, uploaded_files, upload_errors>>
    /\ OthersUnchanged("upload")

\* one pass of: for uploaded_file in uploaded_files
NextUploadedFile ==
    /\ upload_index >= 1
    /\ upload_index <= Len(uploaded_files)
    /\ LET done == ProcessFile(strategies, uploaded_files[upload_index])
       IN  /\ strategies' = done.map
           /\ upload_errors' = upload_errors \o done.reported
    /\ upload_index' = upload_index + 1
    /\ UNCHANGED <<saved_strategies, uploaded_files>>
    /\ OthersUnchanged("upload")

NextUpload ==
    \/ StartBatch
    \/ NextUploadedFile

SpecUpload == InitUpload /\ [][NextUpload]_vars

BatchDone == upload_index = Len(uploaded_files) + 1

\* file i of the batch can be read and format_trade_data returns a ledger for it
Normalizes(i) ==
    /\ uploaded_files[i].content.kind = "DataFrame"
    /\ format_trade_data(uploaded_files[i].content, uploaded_files[i].name).ret.kind
          = "DataFrame"

\* C17: a batch can partially succeed: every file of the batch is processed, a
\* file whose reading or normalization fails is reported and left out, and the
\* strategies map holds the saved strategies plus exactly the uploaded files
\* for which format_trade_data returned a ledger (under their names, the later
\* of two files of one name).
C17_BatchPartiallySucceeds ==
    BatchDone =>
        /\ strategies.names =
              saved_strategies.names
                \cup {uploaded_files[i].name : i \in {j \in DOMAIN uploaded_files : Normalizes(j)}}
        /\ \A n \in saved_strategies.names :
              strategies.ledgers[n] = saved_strategies.ledgers[n]
        /\ \A i \in DOMAIN uploaded_files :
              IF Normalizes(i)
              THEN \/ strategies.ledgers[uploaded_files[i].name] =
                        format_trade_data(uploaded_files[i].content,
                                          uploaded_files[i].name).ret
                   \/ \E j \in DOMAIN uploaded_files :
                        j > i /\ Normalizes(j) /\ uploaded_files[j].name = uploaded_files[i].name
              ELSE uploaded_files[i].name \in SeqToSet(upload_errors)

\* a batch whose first file failed and whose second file was stored
C17_Witness ==
    /\ BatchDone
    /\ Len(uploaded_files) = 2
    /\ ~Normalizes(1)
    /\ Normalizes(2)
    /\ uploaded_files[1].name # uploaded_files[2].name
    /\ strategies.names = saved_strategies.names \cup {uploaded_files[2].name}
    /\ saved_strategies.names # {}

-----------------------------------------------------------------------------
(* Further claims about calculate_metrics *)

CmNetProfits == MapSeq(cm_trades.rows, LAMBDA r : r["Net Profit"])

CmDays == {DayNumber(cm_trades.rows[i]["Entry Date"]) : i \in DOMAIN cm_trades.rows}

\* initial_balance plus the net profit of every trade up to and including day
BalanceOn(day) ==
    cm_result.initial_balance
      + SumSeq(MapSeq(SelectSeq(cm_trades.rows,
                          LAMBDA r : DayNumber(r["Entry Date"]) <= day),
                      LAMBDA r : r["Net Profit"]))

\* C19: the equity curve has exactly one row per calendar day from the day of
\* the earliest trade to the day of the latest, without gaps, and the balance
\* of a day is initial_balance plus the net profit of all trades up to and
\* including that day (so a day without trades repeats the day before).
C19_EquityCurveIsDailyAndCumulative ==
    (cm_result.kind = "metrics" /\ Len(cm_trades.rows) > 0) =>
        LET curve == cm_result.equity_curve
            first_day == CHOOSE d \in CmDays : \A e \in CmDays : d <= e
            last_day == CHOOSE d \in CmDays : \A e \in CmDays : e <= d
        IN  /\ Len(curve) = last_day - first_day + 1
            /\ \A i \in DOMAIN curve :
                  /\ curve[i].day = first_day + i - 1
                  /\ FEq(curve[i].balance, Whole(BalanceOn(curve[i].day)))

\* C20: the risk/reward ratio is |mean losing net profit| / mean winning net
\* profit, and +infinity, not NaN and not an error, whenever no trade of the
\* ledger has a strictly positive net profit.
C20_RiskRewardIsInfiniteWithoutWinners ==
    cm_result.kind = "metrics" =>
        LET winners == SelectSeq(CmNetProfits, LAMBDA p : p > 0)
            losers == SelectSeq(CmNetProfits, LAMBDA p : p < 0)
        IN  /\ winners = <<>> => cm_result.risk_reward.kind = "inf"
            /\ (winners # <<>> /\ losers # <<>>) =>
                  FEq(cm_result.risk_reward,
                      FDiv(Num(0 - SumSeq(losers), Len(losers)),
                           Num(SumSeq(winners), Len(winners))))

\* the balances of the equity curve that calculate_metrics returned
CmBalances == CumulativeProfit(cm_result.equity_curve)

\* the days of the curve that have a balance
CmDaysWithBalance == {i \in DOMAIN CmBalances : CmBalances[i].kind = "num"}

\* the greatest decline from the balance of a day to that of the same or a
\* later day
PeakToTrough ==
    LET declines == {CmBalances[q[1]].num - CmBalances[q[2]].num :
                        q \in {r \in CmDaysWithBalance \X CmDaysWithBalance : r[1] <= r[2]}}
    IN  CHOOSE d \in declines : \A e \in declines : e <= d

\* C21: Max Drawdown ($) is the maximum over the days of the equity curve of
\* the running maximum of the balance minus the balance of the day, a number
\* that is never negative, and Max Drawdown (%) is that amount divided by
\* initial_balance times 100, or 0 when initial_balance is 0.
C21_MaxDrawdownIsPeakToTrough ==
    (cm_result.kind = "metrics" /\ Len(cm_trades.rows) > 0) =>
        /\ cm_result.max_drawdown.kind = "num"
        /\ FLessEq(Whole(0), cm_result.max_drawdown)
        /\ FEq(cm_result.max_drawdown, Whole(PeakToTrough))
        /\ IF cm_result.initial_balance = 0
           THEN FEq(cm_result.percentage_drawdown, Whole(0))
           ELSE FEq(cm_result.percentage_drawdown,
                    Num(PeakToTrough * 100, cm_result.initial_balance))

\* C26: for a ledger with at least one trade the last balance of the equity
\* curve is initial_balance plus the Total Net Profit of the same report,
\* whatever the time of day of the trades.
C26_LastBalanceIsInitialPlusTotal ==
    (cm_result.kind = "metrics" /\ Len(cm_trades.rows) > 0) =>
        /\ Len(cm_result.equity_curve) > 0
        /\ FEq(CmBalances[Len(CmBalances)],
               Whole(cm_result.initial_balance + cm_result.total))

-----------------------------------------------------------------------------
(***************************************************************************)
(* Drawdown period: metrics_calculation.max_drawdown_period on its own     *)
(***************************************************************************)

\* balances of a day, and a day without one
SeriesValues == {NaN, Whole(0), Whole(5), Whole(10)}

InitDDP ==
    /\ balance_series \in SeqsUpTo(SeriesValues, MaxDays)
    /\ drawdown_period = NoneVal
    /\ OthersIdle("ddp")

MaxDrawdownPeriod ==
    /\ drawdown_period = NoneVal
    /\ drawdown_period' = [kind |-> "int", value |-> max_drawdown_period(balance_series)]
    /\ UNCHANGED balance_series
    /\ OthersUnchanged("ddp")

NextDDP == MaxDrawdownPeriod

SpecDDP == InitDDP /\ [][NextDDP]_vars

\* the balance of day i is strictly below the balance of an earlier day
UnderEarlierBalance(i) ==
    \E j \in 1..i : FLess(balance_series[i], balance_series[j])

-----------------------------------------------------------------------------
(***************************************************************************)
(* Streaks per path: monte_carlo.calculate_max_consecutive_losing_trades   *)
(* and calculate_max_consecutive_winning_trades, and the three             *)
(* derived-statistic functions on arrays of any shape                      *)
(***************************************************************************)

\* (mutant: a miss leaves the counter as it is)
WhereHitElseKept(hit, current_streak) ==
    IF hit THEN current_streak + 1 ELSE current_streak

\* np.where(losing[:, i], current_streak + 1, 0), one element
WhereHit(hit, current_streak) == IF hit THEN current_streak + 1 ELSE 0

\* np.maximum, one element
Maximum(a, b) == IF a > b THEN a ELSE b

RECURSIVE ColumnLoop(_, _, _, _)
\* the for loop over the columns from column i on: one counter and one maximum
\* per row, all rows advanced together
ColumnLoop(hits, i, max_streaks, current_streak) ==
    IF hits = <<>> \/ i > Len(hits[1]) THEN max_streaks
    ELSE LET advanced == [r \in DOMAIN hits |-> WhereHit(hits[r][i], current_streak[r])]
         IN  ColumnLoop(hits, i + 1,
                        [r \in DOMAIN hits |-> Maximum(max_streaks[r], advanced[r])],
                        advanced)

\* np.zeros(losing.shape[0], dtype=int)
Zeros(n) == [r \in 1..n |-> 0]

\* a list has no ndim
calculate_max_consecutive_losing_trades(array) ==
    IF array.kind # "ndarray" THEN Raised("AttributeError")
    ELSE IF array.ndim # 2 THEN Raised("ValueError")
    ELSE LET losing == [r \in DOMAIN array.data |->
                           [i \in DOMAIN array.data[r] |-> array.data[r][i] < 0]]
         IN  Matrix(ColumnLoop(losing, 1, Zeros(Len(losing)), Zeros(Len(losing))))

calculate_max_consecutive_winning_trades(array) ==
    IF array.kind # "ndarray" THEN Raised("AttributeError")
    ELSE IF array.ndim # 2 THEN Raised("ValueError")
    ELSE LET winning == [r \in DOMAIN array.data |->
                            [i \in DOMAIN array.data[r] |-> array.data[r][i] > 0]]
         IN  Matrix(ColumnLoop(winning, 1, Zeros(Len(winning)), Zeros(Len(winning))))

\* arrays of no dimension, of one, two and three dimensions, matrices without
\* rows or without columns among them, and a list
PathArrays ==
    CumulativeArrays
    \cup {NdArray(2, <<>>), NdArray(2, <<<<>>, <<>>>>), NdArray(0, <<<<10>>>>)}

PathStat(function, result) ==
    [kind |-> "stat", function |-> function, result |-> result]

InitPaths ==
    /\ simulated_trades \in PathArrays
    /\ path_stats = NoneVal
    /\ OthersIdle("paths")

MaxConsecutiveLosingTrades ==
    /\ path_stats = NoneVal
    /\ path_stats' = PathStat("losing",
                              calculate_max_consecutive_losing_trades(simulated_trades))
    /\ UNCHANGED simulated_trades
    /\ OthersUnchanged("paths")

MaxConsecutiveWinningTrades ==
    /\ path_stats = NoneVal
    /\ path_stats' = PathStat("winning",
                              calculate_max_consecutive_winning_trades(simulated_trades))
    /\ UNCHANGED simulated_trades
    /\ OthersUnchanged("paths")

MaxDrawdownOfPaths ==
    /\ path_stats = NoneVal
    /\ path_stats' = PathStat("drawdown", calculate_max_drawdown(simulated_trades, FALSE))
    /\ UNCHANGED simulated_trades
    /\ OthersUnchanged("paths")

NextPaths ==
    \/ MaxConsecutiveLosingTrades
    \/ MaxConsecutiveWinningTrades
    \/ MaxDrawdownOfPaths

SpecPaths == InitPaths /\ [][NextPaths]_vars

\* a streak function returned values for a matrix
StreaksReturned ==
    /\ path_stats.kind = "stat"
    /\ path_stats.function \in {"losing", "winning"}
    /\ path_stats.result.kind = "ndarray"

\* C23: for every 2-D matrix and every row r, entry r of
\* calculate_max_consecutive_losing_trades is max_consecutive_losses of row r
\* and entry r of calculate_max_consecutive_winning_trades is
\* max_consecutive_wins of row r: no row's counter depends on another row.
C23_VectorizedStreaksAgreeWithScalar ==
    StreaksReturned =>
        /\ Len(path_stats.result.rows) = Len(simulated_trades.data)
        /\ \A r \in DOMAIN simulated_trades.data :
              path_stats.result.rows[r]
                = IF path_stats.function = "losing"
                  THEN max_consecutive_losses(simulated_trades.data[r])
                  ELSE max_consecutive_wins(simulated_trades.data[r])

\* two paths of three trades: the first loses, wins, loses; the second loses
\* three times
C23_Witness ==
    /\ StreaksReturned
    /\ path_stats.function = "losing"
    /\ simulated_trades.data = <<<<-10, 10, -10>>, <<-10, -10, -10>>>>
    /\ path_stats.result.rows = <<1, 3>>

\* the number of paths of an array of one or two dimensions
PathCount == IF simulated_trades.ndim = 1 THEN 1 ELSE Len(simulated_trades.data)

\* C24: the streak functions raise for every array that is not 2-D,
\* calculate_max_drawdown raises for every array that is neither 1-D nor 2-D
\* and takes a 1-D array as one path, and for an array of an accepted
\* dimensionality each function returns exactly one value per path.
C24_WrongShapeRaisesElseOneValuePerPath ==
    (path_stats.kind = "stat" /\ simulated_trades.kind = "ndarray") =>
        LET accepted == IF path_stats.function = "drawdown"
                        THEN simulated_trades.ndim \in {1, 2}
                        ELSE simulated_trades.ndim = 2
        IN  IF accepted
            THEN /\ path_stats.result.kind = "ndarray"
                 /\ Len(path_stats.result.rows) = PathCount
            ELSE path_stats.result.kind = "ValueError"

-----------------------------------------------------------------------------
(***************************************************************************)
(* Confidence-level table: visualize.display_monte_carlo_metrics.  The     *)
(* entries are modelled as the numbers they are before they are formatted; *)
(* the power in the annual return is kept as its base and its exponent.    *)
(***************************************************************************)

confidence_levels == <<50, 70, 80, 90, 95, 98, 100>>

\* the k-th smallest of a sequence of integers
KthSmallest(values, k) ==
    CHOOSE v \in {values[i] : i \in DOMAIN values} :
        /\ Cardinality({i \in DOMAIN values : values[i] < v}) < k
        /\ Cardinality({i \in DOMAIN values : values[i] <= v}) >= k

\* np.percentile with linear interpolation: position level / 100 * (n - 1) in
\* the sorted values
Percentile(values, level) ==
    LET n == Len(values)
        whole == (level * (n - 1)) \div 100
        part == (level * (n - 1)) % 100
        below == KthSmallest(values, whole + 1)
    IN  IF part = 0 THEN Whole(below)
        ELSE Num(below * 100 + part * (KthSmallest(values, whole + 2) - below), 100)

\* (net_profit + initial_balance) / initial_balance
Growth(net_profit, initial_balance) ==
    FDiv(FAdd(net_profit, Whole(initial_balance)), Whole(initial_balance))

\* 1 / len(cumulative_profits): len of a matrix is its number of rows
AnnualExponent(rows) == Num(1, Len(rows))

display_monte_carlo_metrics(array, initial_balance) ==
    LET max_dd == calculate_max_drawdown(array, FALSE)
        final == [r \in DOMAIN array.data |->
                     array.data[r][Len(array.data[r])] - initial_balance]
        Row(level) ==
            LET net_profit == Percentile(final, level)
                max_drawdown == Percentile(MapSeq(max_dd.rows, LAMBDA x : x.num), level)
            IN  [level           |-> level,
                 net_profit      |-> net_profit,
                 r_expectancy    |-> FDiv(net_profit, Whole(initial_balance)),
                 annual_base     |-> Growth(net_profit, initial_balance),
                 annual_exponent |-> AnnualExponent(array.data),
                 max_drawdown    |-> max_drawdown,
                 return_dd_ratio |-> IF max_drawdown.num # 0
                                     THEN FDiv(net_profit, max_drawdown)
                                     ELSE PosInf]
    IN  IF max_dd.kind # "ndarray" THEN Raised(max_dd.kind)
        ELSE [kind |-> "table", rows |-> MapSeq(confidence_levels, Row)]

BalanceValues == {9990, 10010}

\* the matrices render_monte_carlo_tab passes: one row per simulation, one
\* column per trade of the ledger, at least one of each
BalanceMatrices ==
    UNION {[1..sims -> [1..days -> BalanceValues]] : sims \in 1..MaxSims, days \in 1..MaxCols}

InitCL ==
    /\ display_call \in {[kind            |-> "call",
                           array           |-> NdArray(2, paths),
                           initial_balance |-> b] :
                              paths \in BalanceMatrices, b \in InitialBalances}
    /\ metrics_table = NoneVal
    /\ OthersIdle("cl")

DisplayMonteCarloMetrics ==
    /\ metrics_table = NoneVal
    /\ metrics_table' = display_monte_carlo_metrics(display_call.array,
                                                    display_call.initial_balance)
    /\ UNCHANGED display_call
    /\ OthersUnchanged("cl")

NextCL == DisplayMonteCarloMetrics

SpecCL == InitCL /\ [][NextCL]_vars

\* the final net profit of every simulated path
FinalNetProfits ==
    [r \in DOMAIN display_call.array.data |->
        display_call.array.data[r][Len(display_call.array.data[r])]
          - display_call.initial_balance]

\* the number of days (columns) of a simulated path
NumDays == Len(display_call.array.data[1])

\* C25: for each of the levels 50, 70, 80, 90, 95, 98 and 100 the annualized
\* return is ((net_profit + initial_balance) / initial_balance) to the power
\* 1 / num_days, minus 1, with net_profit the percentile of the final net
\* profit at that level and num_days the number of columns of the matrix,
\* whatever the number of simulations.
C25_AnnualReturnUsesNumDays ==
    (metrics_table.kind = "table" /\ display_call.initial_balance # 0) =>
        /\ Len(metrics_table.rows) = Len(confidence_levels)
        /\ \A k \in DOMAIN metrics_table.rows :
              LET row == metrics_table.rows[k]
                  net_profit == Percentile(FinalNetProfits, confidence_levels[k])
              IN  /\ row.level = confidence_levels[k]
                  /\ row.net_profit = net_profit
                  /\ row.annual_base
                       = FDiv(FAdd(net_profit, Whole(display_call.initial_balance)),
                              Whole(display_call.initial_balance))
                  /\ row.annual_exponent = Num(1, NumDays)

-----------------------------------------------------------------------------
(***************************************************************************)
(* The 'Strategy Quality Number' entry of the report:                      *)
(* f"{round(sqn, 2)} ({interpret_sqn(sqn)})"                               *)
(***************************************************************************)

\* round(sqn, 2) of a value in thousandths that is not halfway between two
\* hundredths; nan and the infinities round to themselves
RoundHundredths(x) ==
    IF x.kind # "num" THEN x
    ELSE Num((x.num * (1000 \div x.den) + 5) \div 10, 100)

\* sqn = (expectancy / trades_std_dev) * np.sqrt(number_of_trades) if
\* trades_std_dev != 0 else 0: a value in thousandths, 0 for a ledger whose net
\* profits are all equal, nan for a ledger of one trade (its std is nan)
EntrySqnValues ==
    {Num(t, 1000) : t \in {u \in (0 - 10 * MaxSqn)..(10 * MaxSqn) : u % 10 # 5}}
    \cup {NaN}

QualityEntry(x) == [number |-> RoundHundredths(x), label |-> interpret_sqn(x)]

InitEntry ==
    /\ entry_sqn \in EntrySqnValues
    /\ sqn_entry = NoneVal
    /\ OthersIdle("entry")

StrategyQualityNumber ==
    /\ sqn_entry = NoneVal
    /\ sqn_entry' = [kind |-> "entry"] @@ QualityEntry(entry_sqn)
    /\ UNCHANGED entry_sqn
    /\ OthersUnchanged("entry")

NextEntry == StrategyQualityNumber

SpecEntry == InitEntry /\ [][NextEntry]_vars

\* C27: in the 'Strategy Quality Number' entry the label is the one the fixed
\* thresholds assign to the number shown next to it, the SQN rounded to two
\* decimals, for every ledger with at least one trade.
C27_LabelAgreesWithShownNumber ==
    sqn_entry.kind = "entry" =>
        sqn_entry.label = ThresholdLabel(sqn_entry.number)

-----------------------------------------------------------------------------
(***************************************************************************)
(* The normalizer applied to its own result                                *)
(***************************************************************************)

\* format_trade_data(formatted_trades, name) on the ledger an earlier call
\* returned; the pass-through branch assigns into the ledger it is given
FormatAgain ==
    /\ norm_path \in {"pass_through", "pairing"}
    /\ again_path = "idle"
    /\ LET call == format_trade_data(formatted, uploaded_name)
       IN  /\ formatted_again' = call.ret
           /\ formatted' = call.data
           /\ st_errors' = st_errors \o call.error
           /\ again_path' = call.path
    /\ UNCHANGED <<trade_data, uploaded_name, norm_path>>
    /\ UNCHANGED <<mcVars, streakVars, sqnVars, ddVars, cmVars, mpVars, ledgerVars,
                   uploadVars, ddpVars, pathVars, clVars, entryVars, sidebarVars>>

NextTwice ==
    \/ FormatTradeData
    \/ FormatAgain

SpecTwice == InitNorm /\ [][NextTwice]_vars

\* C28: normalization is idempotent: called on a ledger L that it returned, by
\* either path, format_trade_data takes the pass-through path and returns a
\* ledger with the columns and the rows of L.
C28_NormalizationIsIdempotent ==
    again_path # "idle" =>
        /\ again_path = "pass_through"
        /\ formatted_again.kind = "DataFrame"
        /\ formatted_again.columns = formatted.columns
        /\ formatted_again.rows = formatted.rows

-----------------------------------------------------------------------------
(* The generator after a call that fails validation *)

\* the latest call fails one of the three validations of the engine
McFailsValidation ==
    \/ ~McHasProfit
    \/ ~McKnownMethod
    \/ mc_call.method = "randomized_shuffling" /\ McNumTrades > Len(McPool)

\* C29: a call that fails validation (no 'Profit' column, unknown method, or
\* num_trades above the pool under 'randomized_shuffling') raises and leaves
\* the process-wide generator in the state it was in, seed or no seed, so an
\* unseeded call after it returns what it would have returned without it.
C29_FailedValidationKeepsGenerator ==
    [][(mc_call'.kind = "call" /\ McFailsValidation') =>
          /\ mc_result'.kind \in {"KeyError", "ValueError"}
          /\ np_random_state' = np_random_state
          /\ \A next \in McCallsKept :
                ~next.seed.given =>
                    monte_carlo_simulation(mc_trades, next.num_simulations,
                        next.num_trades, next.method, next.seed, np_random_state')
                    = monte_carlo_simulation(mc_trades, next.num_simulations,
                        next.num_trades, next.method, next.seed, np_random_state)]_vars

\* a call with a seed has failed validation and the generator is not in the
\* state of that seed
C29_Witness ==
    /\ mc_call.kind = "call"
    /\ mc_call.seed.given
    /\ McFailsValidation
    /\ mc_result.kind \in {"KeyError", "ValueError"}
    /\ np_random_state # SeedState(mc_call.seed.value)

-----------------------------------------------------------------------------
(***************************************************************************)
(* Sidebar: sidebar.render_sidebar.  Streamlit runs the script once per    *)
(* interaction: the widget the user touched takes its new value, its       *)
(* on_change callback runs, and then the script runs from the top.  A step *)
(* of the model is one such run.  st.session_state is the set of its       *)
(* pairs <<key, value>>; a strategy is known by its SQN.                   *)
(***************************************************************************)

StrategyNames == <<"A", "B", "C">>

\* the SQN of a strategy: below 2, below 2 but shown as 2.0, above 2, and the
\* nan of a strategy of one trade
SidebarSqnValues == {Num(1500, 1000), Num(1998, 1000), Num(2500, 1000), NaN}

SelectAllKey == <<"select_all", "">>
CheckboxKey(filename) == <<"checkbox", filename>>

Has(state, key) == \E pair \in state : pair[1] = key
Get(state, key) == (CHOOSE pair \in state : pair[1] = key)[2]
Put(state, key, value) == {pair \in state : pair[1] # key} \cup {<<key, value>>}

Filenames(strats) == DOMAIN strats

RECURSIVE PutAll(_, _, _)
\* st.session_state[f"checkbox_{filename}"] = value for every file name
PutAll(state, filenames, value) ==
    IF filenames = {} THEN state
    ELSE LET filename == CHOOSE f \in filenames : TRUE
         IN  PutAll(Put(state, CheckboxKey(filename), value), filenames \ {filename}, value)

\* the keys that are not in st.session_state yet get their first value
InitializeState(state, strats) ==
    LET missing == {f \in Filenames(strats) : ~Has(state, CheckboxKey(f))}
        with_boxes == PutAll(state, missing, TRUE)
    IN  IF Has(with_boxes, SelectAllKey) THEN with_boxes
        ELSE Put(with_boxes, SelectAllKey, FALSE)

\* on_change of "Select All"
toggle_select_all(state, strats) ==
    PutAll(state, Filenames(strats), Get(state, SelectAllKey))

\* on_change of a strategy checkbox
update_select_all(state, strats) ==
    Put(state, SelectAllKey, \A f \in Filenames(strats) : Get(state, CheckboxKey(f)))

\* sqn_value = float(strategy_metrics['Strategy Quality Number'].split()[0])
\* and sqn_value < 2: the number read back is the SQN rounded to two decimals
BelowTwo(x) == FLess(RoundHundredths(x), Whole(2))

\* if filter_by_sqn: every strategy with sqn_value < 2 is deselected
AutoDeselect(state, strats) ==
    {IF pair[1][1] = "checkbox" /\ BelowTwo(strats[pair[1][2]])
     THEN <<pair[1], FALSE>> ELSE pair : pair \in state}

\* the body of render_sidebar, run on the session state the callbacks left
ScriptRun(state, strats, filter) ==
    LET initialized == InitializeState(state, strats)
    IN  IF filter THEN AutoDeselect(initialized, strats) ELSE initialized

\* portfolio_selection = [filename for filename in strategies.keys()
\*                        if st.session_state[f"checkbox_{filename}"]]
Selection(state, strats) == {f \in Filenames(strats) : Get(state, CheckboxKey(f))}

StrategySets ==
    UNION {[{StrategyNames[i] : i \in 1..n} -> SidebarSqnValues] : n \in 1..MaxStrategies}

\* a new session: nothing in st.session_state, the filter not ticked
InitSidebar ==
    /\ sidebar_strategies \in StrategySets
    /\ filter_by_sqn = FALSE
    /\ session_state = {}
    /\ portfolio_selection = {}
    /\ OthersIdle("sidebar")

\* the session state after a run, and what the run returned
RunWith(state, filter) ==
    LET after == ScriptRun(state, sidebar_strategies, filter)
    IN  /\ session_state' = after
        /\ portfolio_selection' = Selection(after, sidebar_strategies)
        /\ filter_by_sqn' = filter
        /\ UNCHANGED sidebar_strategies
        /\ OthersUnchanged("sidebar")

\* the first run, or a rerun some other widget of the page caused
Rerun ==
    \E filter \in {filter_by_sqn} : RunWith(session_state, filter)

\* the user ticks or unticks the filter
ClickFilter ==
    /\ session_state # {}
    /\ RunWith(session_state, ~filter_by_sqn)

\* the user ticks or unticks "Select All"
ClickSelectAll ==
    /\ session_state # {}
    /\ RunWith(toggle_select_all(Put(session_state, SelectAllKey,
                                     ~Get(session_state, SelectAllKey)),
                                 sidebar_strategies),
               filter_by_sqn)

\* the user ticks or unticks the checkbox of a strategy
ClickStrategy ==
    /\ session_state # {}
    /\ \E f \in Filenames(sidebar_strategies) :
          RunWith(update_select_all(Put(session_state, CheckboxKey(f),
                                        ~Get(session_state, CheckboxKey(f))),
                                    sidebar_strategies),
                  filter_by_sqn)

NextSidebar ==
    \/ Rerun
    \/ ClickFilter
    \/ ClickSelectAll
    \/ ClickStrategy

SpecSidebar == InitSidebar /\ [][NextSidebar]_vars

\* C30: while the filter 'Auto-deselect strategies with SQN < 2' is ticked,
\* after any sequence of clicks and reruns the selection render_sidebar
\* returned holds no strategy whose SQN is below 2 and is the set of the
\* strategies whose checkbox state is true.
C30_FilteredSelectionHasNoLowSqn ==
    (session_state # {} /\ filter_by_sqn) =>
        /\ \A f \in portfolio_selection :
              ~FLess(sidebar_strategies[f], Whole(2))
        /\ portfolio_selection
             = {f \in Filenames(sidebar_strategies) : Get(session_state, CheckboxKey(f))}

=============================================================================
